---- MODULE Spec2Model ----
(***************************************************************************)
(* Homer story-flow runtime (class HomerParser): the flow walker, the      *)
(* loader and the part of the text templater the walker depends on.        *)
(*                                                                         *)
(* HomerParser keeps two static fields shared by every instance            *)
(* (globalVariables, activeSubFlows) and evaluates authored expressions    *)
(* through the ambient binding window.Homer, the instance constructed      *)
(* last.  An instance is a record of rt; the statics are variables of      *)
(* their own.                                                              *)
(***************************************************************************)
EXTENDS Integers, Sequences, FiniteSets, TLC

VARIABLES
    globalVariables,  \* static HomerParser.globalVariables: name -> value
    activeSubFlows,   \* static HomerParser.activeSubFlows: head = top of stack
    Homer,            \* window.Homer: the instance constructed last (0: none)
    rt,               \* the HomerParser instances
    pc,               \* "idle", or "walking" while nextNode recurses
    walker,           \* the instance whose nextNode is in progress
    depth,            \* number of nextNode frames on the call stack
    result,           \* what the last operation returned
    op,               \* the last operation called by the host
    fetching,         \* instances whose loadFromFile request is pending
    ready,            \* per instance: number of onReady invocations
    run1, run2        \* recorded host sessions (operations and their outputs)

vars == << globalVariables, activeSubFlows, Homer, rt, pc, walker, depth,
           result, op, fetching, ready, run1, run2 >>

-----------------------------------------------------------------------------
(* Bounds *)

\* depth of the JavaScript call stack available to nextNode's recursion
StackLimit == 8
\* length of a recorded host session
MaxOps == 3
\* texts a recorded session renders
MaxRenders == 6
\* traversals of a Sequence node, and selections of a Text node, recorded
MaxTraversals == 6

-----------------------------------------------------------------------------
(* JavaScript values *)

Num(k) == [t |-> "num", n |-> k, s |-> ""]
Str(x) == [t |-> "str", n |-> 0, s |-> x]
Bool(b) == [t |-> "bool", n |-> IF b THEN 1 ELSE 0, s |-> ""]
Undef == [t |-> "undef", n |-> 0, s |-> ""]
NaN == [t |-> "nan", n |-> 0, s |-> ""]
Null == [t |-> "null", n |-> 0, s |-> ""]

\* !v
Falsy(v) ==
    \/ v.t \in {"undef", "nan", "null"}
    \/ v.t \in {"num", "bool"} /\ v.n = 0
    \/ v.t = "str" /\ v.s = ""

\* String(v), as string concatenation and String.replace convert a value
ValText(v) ==
    CASE v.t = "num" -> ToString(v.n)
      [] v.t = "str" -> v.s
      [] v.t = "bool" -> IF v.n = 1 THEN "true" ELSE "false"
      [] v.t = "nan" -> "NaN"
      [] v.t = "null" -> "null"
      [] OTHER -> "undefined"

\* eval(v): a string is run as code, any other value is returned as it is
EvalValue(v) ==
    IF v.t = "str" /\ v.s = "true" THEN Bool(TRUE)
    ELSE IF v.t = "str" /\ v.s = "false" THEN Bool(FALSE)
    ELSE v

-----------------------------------------------------------------------------
(* Node, cycle and variable types *)

NULL == "null"
\* a field the project JSON leaves out reads as undefined, which is not null
ABSENT == "undefined"
THE_END == "THE END"

NT_start == "Start"
NT_text == "Text"
NT_note == "Note"
NT_choices == "Choice"
NT_variables == "Variables"
NT_condition == "Condition"
NT_failCondition == "FailCondition"
NT_random == "Random"
NT_sequence == "Sequence"
NT_jumpToNode == "JumpToNode"
NT_layout == "Layout"
NT_subFlow == "SubFlow"

CT_list == "List"
CT_loop == "Loop"
CT_random == "Random"
CT_smartRandom == "Smart Random"
CT_none == NULL

VT_separator == "separator"

-----------------------------------------------------------------------------
(* The project handed to the constructor and to load *)

\* an authored expression: op is "inc3" ($x = ($x + 1) % 3), "inc"
\* ($x = $x + 1), "set" (x = k), "gt" (x > k), "show" (x alone) or "bad"
\* (x +, which is no expression); scope is "g" ($name) or "l" (%name)
Expr(o, sc, nm, k) == [op |-> o, scope |-> sc, name |-> nm, k |-> k]
NoExpr == Expr("none", "g", "", Undef)

\* the pieces of an element's text
Lit(x) == [k |-> "lit", s |-> x, e |-> NoExpr, v |-> << >>]
Braces(ex) == [k |-> "expr", s |-> "", e |-> ex, v |-> << >>]
JustOnceMark == [k |-> "justOnce", s |-> "", e |-> NoExpr, v |-> << >>]
IfNoMoreMark == [k |-> "ifNoMore", s |-> "", e |-> NoExpr, v |-> << >>]
\* a block [[TYPE o1|o2|...]] with its options as they are authored
Variation(type, options) ==
    [k |-> "variation", s |-> type, e |-> NoExpr, v |-> options]

\* a block [IF cond ? "a1" : "a2"] with its quoted arms as they are authored
IfBlock(ex, arms) == [k |-> "cond", s |-> "", e |-> ex, v |-> arms]

MainLocale == "EN"

\* an entry of _localizedContents: the text in one locale
Content(localeCode, parts) == [localeCode |-> localeCode, parts |-> parts]
\* what getLocalizedContent returns when it finds no entry: null
NoContent == Content(NULL, << >>)

ElIn(id, nodeId, type, contents) ==
    [id |-> id, nodeId |-> nodeId, type |-> type, localizedContents |-> contents]

\* an element written in the main locale only
El(id, nodeId, type, parts) ==
    ElIn(id, nodeId, type, << Content(MainLocale, parts) >>)

Conn(to, type, elId) == [to |-> to, type |-> type, nodeElementId |-> elId]
NoConn == Conn(NULL, "none", NULL)

NoJump == [flowId |-> NULL, nodeId |-> NULL]

Node(id, type, cycle, els, conns, jump) ==
    [id |-> id, type |-> type, cycleType |-> cycle, elements |-> els,
     connections |-> conns, jumpTo |-> jump, translatable |-> TRUE]
NoNode == Node(NULL, "none", CT_none, << >>, << >>, NoJump)

ProjectVariables ==
    << [key |-> "count", value |-> Num(0), type |-> "int"],
       [key |-> "sep", value |-> Str("-"), type |-> VT_separator],
       [key |-> "flag", value |-> Str("false"), type |-> "bool"],
       [key |-> "name", value |-> Str(""), type |-> "string"],
       [key |-> "n", value |-> Num(0), type |-> "int"] >>

GlobalNames == {"count", "sep", "flag", "name", "n"}
LocalNames == {"l"}

MainFlow ==
    [id |-> "f1", name |-> "main", slug |-> "MAIN", nodes |->
     << Node("s1", NT_start, CT_none, << >>,
             << Conn("v1", "default", ABSENT) >>, NoJump),
        Node("v1", NT_variables, CT_none,
             << El("ev1", "v1", NT_variables,
                   << Braces(Expr("inc3", "g", "count", Undef)) >>),
                El("ev2", "v1", NT_variables,
                   << Braces(Expr("set", "l", "l", Num(1))) >>) >>,
             << Conn("t1", "default", ABSENT) >>, NoJump),
        Node("t1", NT_text, CT_list,
             << El("et1", "t1", NT_text,
                   << Lit("count="),
                      Braces(Expr("show", "g", "count", Undef)) >>) >>,
             << Conn("c1", "default", ABSENT) >>, NoJump),
        Node("c1", NT_choices, CT_none,
             << El("ec1", "c1", NT_choices,
                   << JustOnceMark, Lit("go"),
                      Braces(Expr("set", "g", "flag", Bool(TRUE))) >>),
                El("ec2", "c1", NT_choices,
                   << JustOnceMark, Lit("again") >>) >>,
             << Conn("j1", "default", "ec1"),
                Conn("v1", "default", "ec2"),
                Conn("t2", NT_failCondition, ABSENT) >>, NoJump),
        Node("j1", NT_jumpToNode, CT_none, << >>, << >>,
             [flowId |-> "f2", nodeId |-> "t3"]),
        Node("t2", NT_text, CT_none,
             << El("et2", "t2", NT_text, << Lit("bye") >>) >>,
             << >>, NoJump) >>]

SubFlowFlow ==
    [id |-> "f2", name |-> "sub", slug |-> "SUB", nodes |->
     << Node("s2", NT_start, CT_none, << >>,
             << Conn("ly", "default", ABSENT) >>, NoJump),
        Node("ly", NT_layout, CT_none, << >>,
             << Conn("sq", "default", ABSENT) >>, NoJump),
        Node("sq", NT_sequence, CT_random,
             << El("es1", "sq", NT_sequence, << Lit("first") >>) >>,
             << Conn("rn", "default", "es1") >>, NoJump),
        Node("rn", NT_random, CT_none, << >>,
             << Conn("cn", "default", ABSENT) >>, NoJump),
        Node("cn", NT_condition, CT_none,
             << El("ecn", "cn", NT_condition,
                   << Braces(Expr("gt", "g", "count", Num(0))) >>) >>,
             << Conn("sf1", "default", "ecn"),
                Conn("sf1", NT_failCondition, ABSENT) >>, NoJump),
        Node("sf1", NT_subFlow, CT_none, << >>,
             << Conn("t3", NT_subFlow, ABSENT),
                Conn("t4", "default", ABSENT) >>, NoJump),
        Node("t3", NT_text, CT_none,
             << El("et3", "t3", NT_text, << Lit("inside") >>) >>,
             << >>, NoJump),
        Node("t4", NT_text, CT_none,
             << El("et4", "t4", NT_text, << Lit("after") >>) >>,
             << Conn("j2", "default", ABSENT) >>, NoJump),
        Node("j2", NT_jumpToNode, CT_none, << >>, << >>,
             [flowId |-> "missing", nodeId |-> "nowhere"]) >>]

CycleFlow ==
    [id |-> "f3", name |-> "cyc", slug |-> "CYC", nodes |->
     << Node("s3", NT_start, CT_none, << >>,
             << Conn("n1", "default", ABSENT) >>, NoJump),
        Node("n1", NT_note, CT_none, << >>,
             << Conn("n2", "default", ABSENT) >>, NoJump),
        Node("n2", NT_note, CT_none, << >>,
             << Conn("n1", "default", ABSENT) >>, NoJump) >>]

\* a jump onto a Choice whose only choice renders empty
LeakFlow ==
    [id |-> "f4", name |-> "leak", slug |-> "LEAK", nodes |->
     << Node("s4", NT_start, CT_none, << >>,
             << Conn("j4", "default", ABSENT) >>, NoJump),
        Node("j4", NT_jumpToNode, CT_none, << >>, << >>,
             [flowId |-> "f4", nodeId |-> "c4"]),
        Node("c4", NT_choices, CT_none,
             << El("ec4", "c4", NT_choices, << >>) >>,
             << Conn("t5", "default", "ec4"),
                Conn("sf4", NT_failCondition, ABSENT) >>, NoJump),
        Node("sf4", NT_subFlow, CT_none, << >>,
             << Conn("t5", NT_subFlow, ABSENT),
                Conn("t6", "default", ABSENT) >>, NoJump),
        Node("t5", NT_text, CT_none,
             << El("et5", "t5", NT_text, << Lit("callee") >>) >>,
             << >>, NoJump),
        Node("t6", NT_text, CT_none,
             << El("et6", "t6", NT_text, << Lit("resumed") >>) >>,
             << >>, NoJump) >>]

\* texts: a Loop node and four texts with variation blocks
TextFlow ==
    [id |-> "f5", name |-> "text", slug |-> "TEXT", nodes |->
     << Node("s5", NT_start, CT_none, << >>,
             << Conn("n5", "default", ABSENT) >>, NoJump),
        Node("n5", NT_note, CT_none, << >>,
             << Conn("lp", "default", ABSENT) >>, NoJump),
        Node("lp", NT_text, CT_loop,
             << El("ea", "lp", NT_text, << Lit("A") >>),
                El("eb", "lp", NT_text, << Lit("B") >>) >>,
             << Conn("nl", "default", ABSENT) >>, NoJump),
        Node("nl", NT_text, CT_list,
             << El("evl", "nl", NT_text,
                   << Variation("LIST", << "a", "b", "c" >>) >>) >>,
             << Conn("ns", "default", ABSENT) >>, NoJump),
        Node("ns", NT_text, CT_list,
             << El("evs", "ns", NT_text,
                   << Variation("SRND", << "a", "b", "c" >>) >>) >>,
             << Conn("nt", "default", ABSENT) >>, NoJump),
        Node("nt", NT_text, CT_list,
             << El("evt", "nt", NT_text,
                   << Variation("LIST", << "a", "b" >>),
                      Variation("LOOP", << "x", "y" >>) >>) >>,
             << Conn("nd", "default", ABSENT) >>, NoJump),
        Node("nd", NT_text, CT_list,
             << El("evd", "nd", NT_text,
                   << Variation("SRND", << "a", "b" >>),
                      Variation("SRND", << "a", "b" >>) >>) >>,
             << >>, NoJump) >>]

\* a question: two just-once choices, the second of which shows $name and
\* is empty until the first has set it, and a fallback choice that leads to
\* a Condition node; the text after a choice and the second element of the
\* Condition node hold an expression that does not evaluate
AskFlow ==
    [id |-> "f6", name |-> "ask", slug |-> "ASK", nodes |->
     << Node("s6", NT_start, CT_none, << >>,
             << Conn("cq", "default", ABSENT) >>, NoJump),
        Node("cq", NT_choices, CT_none,
             << El("eq1", "cq", NT_choices,
                   << JustOnceMark, Lit("ask"),
                      Braces(Expr("set", "g", "name", Str("x"))) >>),
                El("eq2", "cq", NT_choices,
                   << JustOnceMark,
                      Braces(Expr("show", "g", "name", Undef)) >>),
                El("eq3", "cq", NT_choices,
                   << IfNoMoreMark, Lit("leave") >>) >>,
             << Conn("tq", "default", "eq1"),
                Conn("tq", "default", "eq2"),
                Conn("cd", "default", "eq3") >>, NoJump),
        Node("tq", NT_text, CT_list,
             << El("etq", "tq", NT_text,
                   << Lit("asked"),
                      Braces(Expr("bad", "g", "count", Undef)) >>) >>,
             << Conn("cq", "default", ABSENT) >>, NoJump),
        Node("cd", NT_condition, CT_none,
             << El("ecd1", "cd", NT_condition,
                   << Braces(Expr("gt", "g", "count", Num(0))) >>),
                El("ecd2", "cd", NT_condition,
                   << Braces(Expr("bad", "g", "count", Undef)) >>) >>,
             << Conn("te", "default", "ecd1"),
                Conn("te", "default", "ecd2"),
                Conn("te", NT_failCondition, ABSENT) >>, NoJump),
        Node("te", NT_text, CT_list,
             << El("ete2", "te", NT_text, << Lit("left") >>) >>,
             << >>, NoJump) >>]

\* a greeting and a farewell: the first element of the greeting has a text
\* in the main locale only, its second an empty text in the locale DE
GreetFlow ==
    [id |-> "f7", name |-> "greet", slug |-> "GREET", nodes |->
     << Node("s7", NT_start, CT_none, << >>,
             << Conn("n7", "default", ABSENT) >>, NoJump),
        Node("n7", NT_note, CT_none, << >>,
             << Conn("tr", "default", ABSENT) >>, NoJump),
        Node("tr", NT_text, CT_list,
             << El("etr", "tr", NT_text, << Lit("hello") >>),
                ElIn("ete", "tr", NT_text,
                     << Content(MainLocale, << Lit("world") >>),
                        Content("DE", << >>) >>) >>,
             << Conn("tb", "default", ABSENT) >>, NoJump),
        Node("tb", NT_text, CT_list,
             << ElIn("etb", "tb", NT_text,
                     << Content(MainLocale, << Lit("bye") >>),
                        Content("DE", << Lit("ade") >>) >>) >>,
             << >>, NoJump) >>]

\* scenario S1: a Variables node that counts $n up and a Text that shows it
S1Flow ==
    [id |-> "f8", name |-> "s1", slug |-> "S1", nodes |->
     << Node("s8", NT_start, CT_none, << >>,
             << Conn("vn", "default", ABSENT) >>, NoJump),
        Node("vn", NT_variables, CT_none,
             << El("evn", "vn", NT_variables,
                   << Braces(Expr("inc", "g", "n", Undef)) >>) >>,
             << Conn("tn", "default", ABSENT) >>, NoJump),
        Node("tn", NT_text, CT_list,
             << El("etn", "tn", NT_text,
                   << Lit("n="), Braces(Expr("show", "g", "n", Undef)) >>) >>,
             << >>, NoJump) >>]

\* two Condition nodes: the first compares $count, which the Variables node
\* before it counts up, in two elements; its fail-connection leads to the
\* second, whose one element compares $n
CondFlow ==
    [id |-> "f9", name |-> "cond", slug |-> "COND", nodes |->
     << Node("s9", NT_start, CT_none, << >>,
             << Conn("vc", "default", ABSENT) >>, NoJump),
        Node("vc", NT_variables, CT_none,
             << El("evc", "vc", NT_variables,
                   << Braces(Expr("inc3", "g", "count", Undef)) >>) >>,
             << Conn("cz", "default", ABSENT) >>, NoJump),
        Node("cz", NT_condition, CT_none,
             << El("ecz1", "cz", NT_condition,
                   << Braces(Expr("gt", "g", "count", Num(1))) >>),
                El("ecz2", "cz", NT_condition,
                   << Braces(Expr("gt", "g", "count", Num(0))) >>) >>,
             << Conn("tbig", "default", "ecz1"),
                Conn("tsome", "default", "ecz2"),
                Conn("cnz", NT_failCondition, ABSENT) >>, NoJump),
        Node("tbig", NT_text, CT_list,
             << El("etbig", "tbig", NT_text, << Lit("big") >>) >>,
             << >>, NoJump),
        Node("tsome", NT_text, CT_list,
             << El("etsome", "tsome", NT_text, << Lit("some") >>) >>,
             << >>, NoJump),
        Node("cnz", NT_condition, CT_none,
             << El("ecnz", "cnz", NT_condition,
                   << Braces(Expr("gt", "g", "n", Num(0))) >>) >>,
             << Conn("tpos", "default", "ecnz"),
                Conn("tzero", NT_failCondition, ABSENT) >>, NoJump),
        Node("tpos", NT_text, CT_list,
             << El("etpos", "tpos", NT_text, << Lit("positive") >>) >>,
             << >>, NoJump),
        Node("tzero", NT_text, CT_list,
             << El("etzero", "tzero", NT_text, << Lit("zero") >>) >>,
             << >>, NoJump) >>]

\* a Text node whose elements hold an [IF ...] block each: with two arms,
\* with one, with none, with a condition that is no expression and with a
\* local variable no node has set as the condition
IfFlow ==
    [id |-> "f10", name |-> "if", slug |-> "IF", nodes |->
     << Node("s10", NT_start, CT_none, << >>,
             << Conn("vi", "default", ABSENT) >>, NoJump),
        Node("vi", NT_variables, CT_none,
             << El("evi", "vi", NT_variables,
                   << Braces(Expr("inc3", "g", "count", Undef)) >>) >>,
             << Conn("ti", "default", ABSENT) >>, NoJump),
        Node("ti", NT_text, CT_list,
             << El("ei2", "ti", NT_text,
                   << Lit("now "),
                      IfBlock(Expr("gt", "g", "count", Num(1)),
                              << "yes", "no" >>) >>),
                El("ei1", "ti", NT_text,
                   << Lit("now "),
                      IfBlock(Expr("gt", "g", "count", Num(1)),
                              << "yes" >>) >>),
                El("ei0", "ti", NT_text,
                   << Lit("now "),
                      IfBlock(Expr("gt", "g", "count", Num(1)), << >>) >>),
                El("eib", "ti", NT_text,
                   << Lit("now "),
                      IfBlock(Expr("bad", "g", "count", Undef),
                              << "yes", "no" >>) >>),
                El("eil", "ti", NT_text,
                   << Lit("now "),
                      IfBlock(Expr("show", "l", "l", Undef),
                              << "yes", "no" >>) >>) >>,
             << Conn("vi", "default", ABSENT) >>, NoJump) >>]

\* a Choice node whose first choice counts $count up and leads back to the
\* node
PickFlow ==
    [id |-> "f11", name |-> "pick", slug |-> "PICK", nodes |->
     << Node("s11", NT_start, CT_none, << >>,
             << Conn("cp", "default", ABSENT) >>, NoJump),
        Node("cp", NT_choices, CT_none,
             << El("ep1", "cp", NT_choices,
                   << Lit("more"),
                      Braces(Expr("inc3", "g", "count", Undef)) >>),
                El("ep2", "cp", NT_choices,
                   << JustOnceMark, Lit("done") >>) >>,
             << Conn("cp", "default", "ep1"),
                Conn("tp", "default", "ep2") >>, NoJump),
        Node("tp", NT_text, CT_list,
             << El("etp", "tp", NT_text, << Lit("picked") >>) >>,
             << Conn("cp", "default", ABSENT) >>, NoJump) >>]

\* the flows of the story, those of the texts and those of the scenarios
StoryFlows == << MainFlow, SubFlowFlow, CycleFlow, LeakFlow >>
TextFlows == << TextFlow, AskFlow, GreetFlow >>
\* a Sequence node that loops over three elements, each bound to a Text node
\* that leads back to it
LoopFlow ==
    [id |-> "f12", name |-> "loop", slug |-> "LOOP", nodes |->
     << Node("s12", NT_start, CT_none, << >>,
             << Conn("ql", "default", ABSENT) >>, NoJump),
        Node("ql", NT_sequence, CT_loop,
             << El("loe1", "ql", NT_sequence, << Lit("1") >>),
                El("loe2", "ql", NT_sequence, << Lit("2") >>),
                El("loe3", "ql", NT_sequence, << Lit("3") >>) >>,
             << Conn("lo1", "default", "loe1"),
                Conn("lo2", "default", "loe2"),
                Conn("lo3", "default", "loe3") >>, NoJump),
        Node("lo1", NT_text, CT_none, << >>,
             << Conn("ql", "default", ABSENT) >>, NoJump),
        Node("lo2", NT_text, CT_none, << >>,
             << Conn("ql", "default", ABSENT) >>, NoJump),
        Node("lo3", NT_text, CT_none, << >>,
             << Conn("ql", "default", ABSENT) >>, NoJump) >>]

\* the same with cycle type Smart Random and no fail-connection
SmartFlow ==
    [id |-> "f13", name |-> "smart", slug |-> "SMART", nodes |->
     << Node("s13", NT_start, CT_none, << >>,
             << Conn("qs", "default", ABSENT) >>, NoJump),
        Node("qs", NT_sequence, CT_smartRandom,
             << El("sme1", "qs", NT_sequence, << Lit("1") >>),
                El("sme2", "qs", NT_sequence, << Lit("2") >>),
                El("sme3", "qs", NT_sequence, << Lit("3") >>) >>,
             << Conn("sm1", "default", "sme1"),
                Conn("sm2", "default", "sme2"),
                Conn("sm3", "default", "sme3") >>, NoJump),
        Node("sm1", NT_text, CT_none, << >>,
             << Conn("qs", "default", ABSENT) >>, NoJump),
        Node("sm2", NT_text, CT_none, << >>,
             << Conn("qs", "default", ABSENT) >>, NoJump),
        Node("sm3", NT_text, CT_none, << >>,
             << Conn("qs", "default", ABSENT) >>, NoJump) >>]

\* the same with cycle type List and no fail-connection
ListFlow ==
    [id |-> "f14", name |-> "list", slug |-> "LIST", nodes |->
     << Node("s14", NT_start, CT_none, << >>,
             << Conn("qn", "default", ABSENT) >>, NoJump),
        Node("qn", NT_sequence, CT_list,
             << El("lie1", "qn", NT_sequence, << Lit("1") >>),
                El("lie2", "qn", NT_sequence, << Lit("2") >>),
                El("lie3", "qn", NT_sequence, << Lit("3") >>) >>,
             << Conn("li1", "default", "lie1"),
                Conn("li2", "default", "lie2"),
                Conn("li3", "default", "lie3") >>, NoJump),
        Node("li1", NT_text, CT_none, << >>,
             << Conn("qn", "default", ABSENT) >>, NoJump),
        Node("li2", NT_text, CT_none, << >>,
             << Conn("qn", "default", ABSENT) >>, NoJump),
        Node("li3", NT_text, CT_none, << >>,
             << Conn("qn", "default", ABSENT) >>, NoJump) >>]

\* the same with cycle type List and a fail-connection
ListFailFlow ==
    [id |-> "f15", name |-> "listfail", slug |-> "LISTFAIL", nodes |->
     << Node("s15", NT_start, CT_none, << >>,
             << Conn("qf", "default", ABSENT) >>, NoJump),
        Node("qf", NT_sequence, CT_list,
             << El("lfe1", "qf", NT_sequence, << Lit("1") >>),
                El("lfe2", "qf", NT_sequence, << Lit("2") >>),
                El("lfe3", "qf", NT_sequence, << Lit("3") >>) >>,
             << Conn("lf1", "default", "lfe1"),
                Conn("lf2", "default", "lfe2"),
                Conn("lf3", "default", "lfe3"),
                Conn("lff", NT_failCondition, ABSENT) >>, NoJump),
        Node("lf1", NT_text, CT_none, << >>,
             << Conn("qf", "default", ABSENT) >>, NoJump),
        Node("lf2", NT_text, CT_none, << >>,
             << Conn("qf", "default", ABSENT) >>, NoJump),
        Node("lf3", NT_text, CT_none, << >>,
             << Conn("qf", "default", ABSENT) >>, NoJump),
        Node("lff", NT_text, CT_none, << >>,
             << Conn("qf", "default", ABSENT) >>, NoJump) >>]

\* a Text node with cycle type Smart Random and three elements
SmartTextFlow ==
    [id |-> "f16", name |-> "smarttext", slug |-> "SMARTTEXT", nodes |->
     << Node("s16", NT_start, CT_none, << >>,
             << Conn("ts", "default", ABSENT) >>, NoJump),
        Node("ts", NT_text, CT_smartRandom,
             << El("ex", "ts", NT_text, << Lit("x") >>),
                El("ey", "ts", NT_text, << Lit("y") >>),
                El("ez", "ts", NT_text, << Lit("z") >>) >>,
             << Conn("ts", "default", ABSENT) >>, NoJump) >>]

\* jumps: onto a Choice node that offers choices (wca), onto a Variables
\* node (wvj), onto a Text node (wtx), and onto Choice nodes whose only
\* choice renders empty and whose fail-connection leads to a Variables node
\* (wcx) or to a Text without outgoing connection (wcz); the Text wtj leads
\* to a Choice node without available choice whose fail-connection leads to
\* the Text wty
JumpFlow ==
    [id |-> "f17", name |-> "jump", slug |-> "JUMP", nodes |->
     << Node("s17", NT_start, CT_none, << >>,
             << Conn("wja", "default", ABSENT) >>, NoJump),
        Node("wja", NT_jumpToNode, CT_none, << >>, << >>,
             [flowId |-> "f17", nodeId |-> "wca"]),
        Node("wca", NT_choices, CT_none,
             << El("wea1", "wca", NT_choices, << Lit("on") >>),
                El("wea2", "wca", NT_choices, << JustOnceMark, Lit("out") >>),
                El("wea3", "wca", NT_choices,
                   << JustOnceMark, Lit("stop") >>) >>,
             << Conn("wjv", "default", "wea1"),
                Conn("wjx", "default", "wea2"),
                Conn("wjz", "default", "wea3") >>, NoJump),
        Node("wjv", NT_jumpToNode, CT_none, << >>, << >>,
             [flowId |-> "f17", nodeId |-> "wvj"]),
        Node("wvj", NT_variables, CT_none,
             << El("wevj", "wvj", NT_variables,
                   << Braces(Expr("inc3", "g", "count", Undef)) >>) >>,
             << Conn("wtj", "default", ABSENT) >>, NoJump),
        Node("wtj", NT_text, CT_none,
             << El("wetj", "wtj", NT_text, << Lit("seen") >>) >>,
             << Conn("wcy", "default", ABSENT) >>, NoJump),
        Node("wcy", NT_choices, CT_none,
             << El("wey1", "wcy", NT_choices, << >>) >>,
             << Conn("wca", "default", "wey1"),
                Conn("wty", NT_failCondition, ABSENT) >>, NoJump),
        Node("wty", NT_text, CT_none,
             << El("wety", "wty", NT_text, << Lit("no choice") >>) >>,
             << Conn("wjt", "default", ABSENT) >>, NoJump),
        Node("wjt", NT_jumpToNode, CT_none, << >>, << >>,
             [flowId |-> "f17", nodeId |-> "wtx"]),
        Node("wjx", NT_jumpToNode, CT_none, << >>, << >>,
             [flowId |-> "f17", nodeId |-> "wcx"]),
        Node("wcx", NT_choices, CT_none,
             << El("wex1", "wcx", NT_choices, << >>) >>,
             << Conn("wtx", "default", "wex1"),
                Conn("wvx", NT_failCondition, ABSENT) >>, NoJump),
        Node("wvx", NT_variables, CT_none,
             << El("wevx", "wvx", NT_variables,
                   << Braces(Expr("inc3", "g", "count", Undef)) >>) >>,
             << Conn("wtx", "default", ABSENT) >>, NoJump),
        Node("wtx", NT_text, CT_none,
             << El("wetx", "wtx", NT_text, << Lit("counted") >>) >>,
             << Conn("wca", "default", ABSENT) >>, NoJump),
        Node("wjz", NT_jumpToNode, CT_none, << >>, << >>,
             [flowId |-> "f17", nodeId |-> "wcz"]),
        Node("wcz", NT_choices, CT_none,
             << El("wez1", "wcz", NT_choices, << >>) >>,
             << Conn("wtz", "default", "wez1"),
                Conn("wtz", NT_failCondition, ABSENT) >>, NoJump),
        Node("wtz", NT_text, CT_none,
             << El("wetz", "wtz", NT_text, << Lit("last") >>) >>,
             << >>, NoJump) >>]

\* two SubFlow nodes, each the sub-flow of the other: the walk comes back to
\* nsa while the entry of nsb is on top of the stack
NestFlow ==
    [id |-> "f18", name |-> "nest", slug |-> "NEST", nodes |->
     << Node("s18", NT_start, CT_none, << >>,
             << Conn("nsa", "default", ABSENT) >>, NoJump),
        Node("nsa", NT_subFlow, CT_none, << >>,
             << Conn("nsb", NT_subFlow, ABSENT),
                Conn("ntu", "default", ABSENT) >>, NoJump),
        Node("nsb", NT_subFlow, CT_none, << >>,
             << Conn("nsa", NT_subFlow, ABSENT),
                Conn("ntw", "default", ABSENT) >>, NoJump),
        Node("ntu", NT_text, CT_none,
             << El("entu", "ntu", NT_text, << Lit("after a") >>) >>,
             << >>, NoJump),
        Node("ntw", NT_text, CT_none,
             << El("entw", "ntw", NT_text, << Lit("after b") >>) >>,
             << >>, NoJump) >>]

\* a Choice node whose choices hold a LIST, a LOOP and an SRND block and
\* lead back to it, and a plain choice that leads to a Text node, from
\* where the walk comes back over a Variables node
OfferFlow ==
    [id |-> "f19", name |-> "offer", slug |-> "OFFER", nodes |->
     << Node("s19", NT_start, CT_none, << >>,
             << Conn("co", "default", ABSENT) >>, NoJump),
        Node("co", NT_choices, CT_none,
             << El("eo1", "co", NT_choices,
                   << Variation("LIST", << "a", "b", "c" >>) >>),
                El("eo2", "co", NT_choices,
                   << Variation("LOOP", << "x", "y" >>) >>),
                El("eo3", "co", NT_choices,
                   << Variation("SRND", << "p", "q" >>) >>),
                El("eo4", "co", NT_choices, << Lit("go") >>) >>,
             << Conn("co", "default", "eo1"),
                Conn("co", "default", "eo2"),
                Conn("co", "default", "eo3"),
                Conn("to", "default", "eo4") >>, NoJump),
        Node("to", NT_text, CT_none,
             << El("eto", "to", NT_text, << Lit("taken") >>) >>,
             << Conn("vo", "default", ABSENT) >>, NoJump),
        Node("vo", NT_variables, CT_none,
             << El("evo", "vo", NT_variables,
                   << Braces(Expr("inc3", "g", "count", Undef)) >>) >>,
             << Conn("co", "default", ABSENT) >>, NoJump) >>]

SceneFlows == << S1Flow, CondFlow, IfFlow, PickFlow >>
SequenceFlows ==
    << LoopFlow, SmartFlow, ListFlow, ListFailFlow, SmartTextFlow >>
WalkFlows == << JumpFlow, NestFlow >>
OfferFlows == << OfferFlow >>

Flows ==
    StoryFlows \o TextFlows \o SceneFlows \o SequenceFlows \o WalkFlows
      \o OfferFlows

FlowGroups ==
    << [id |-> "g1", flowIds |-> << "f1", "f2", "f3", "f4" >>],
       [id |-> "g2", flowIds |-> << "f5", "f6", "f7" >>],
       [id |-> "g3", flowIds |-> << "f8", "f9", "f10", "f11" >>],
       [id |-> "g4", flowIds |-> << "f12", "f13", "f14", "f15", "f16" >>],
       [id |-> "g5", flowIds |-> << "f17", "f18", "f19" >>] >>

\* the project JSON: what load stores in _project
Project ==
    [flows |-> Flows, flowGroups |-> FlowGroups, variables |-> ProjectVariables,
     locale |-> MainLocale, mainLocale |-> MainLocale]

NoFlow == [id |-> NULL, name |-> NULL, slug |-> NULL, nodes |-> << >>]

AllNodes == UNION { { f.nodes[k] : k \in DOMAIN f.nodes }
                    : f \in { Flows[x] : x \in DOMAIN Flows } }
AllElements == UNION { { n.elements[k] : k \in DOMAIN n.elements }
                       : n \in AllNodes }
ElIds == { e.id : e \in AllElements }
FlowNames == { StoryFlows[x].name : x \in DOMAIN StoryFlows }
TextFlowNames == { TextFlows[x].name : x \in DOMAIN TextFlows }
SceneFlowNames == { SceneFlows[x].name : x \in DOMAIN SceneFlows }
\* the elements a host can choose in the flows of a list
ChoicesIn(flows) ==
    { e.id : e \in { x \in AllElements :
                       /\ x.type = NT_choices
                       /\ \E f \in DOMAIN flows : 
                             \E n \in DOMAIN flows[f].nodes :
                                flows[f].nodes[n].id = x.nodeId } }

-----------------------------------------------------------------------------
(* Lookups in the project.  An operation works on a world w: the project   *)
(* (w.pj), the instances (w.rt) and the two statics (w.gv, w.sf).          *)

Max(S) == CHOOSE x \in S : \A y \in S : y <= x
Min(S) == CHOOSE x \in S : \A y \in S : x <= y

\* getFlow: by id, else by name, else by slug; forEach keeps the last match
getFlow(w, ident) ==
    LET flows == w.pj.flows
        byId == { k \in DOMAIN flows : flows[k].id = ident }
        byName == { k \in DOMAIN flows : flows[k].name = ident }
        bySlug == { k \in DOMAIN flows : flows[k].slug = ident }
    IN  IF byId # {} THEN flows[Max(byId)]
        ELSE IF byName # {} THEN flows[Max(byName)]
        ELSE IF bySlug # {} THEN flows[Max(bySlug)]
        ELSE NoFlow

\* getSelectedFlow on instance i: the flow whose id is _selectedFlowId, or
\* null
getSelectedFlow(w, i) ==
    LET flows == w.pj.flows
        m == { k \in DOMAIN flows : flows[k].id = w.rt[i].selectedFlowId }
    IN  IF w.rt[i].loaded /\ m # {} THEN flows[Max(m)] ELSE NoFlow

\* the node of a flow with the given id, or null
NodeIn(flow, nodeId) ==
    LET m == { k \in DOMAIN flow.nodes : flow.nodes[k].id = nodeId }
    IN  IF m # {} THEN flow.nodes[Max(m)] ELSE NoNode

\* getNode(nodeId, flowId) on instance i: null arguments default to the
\* cursor
getNode(w, i, nodeId, flowId) ==
    NodeIn(IF flowId # NULL THEN getFlow(w, flowId) ELSE getSelectedFlow(w, i),
           IF nodeId = NULL THEN w.rt[i].selectedNodeId ELSE nodeId)

\* getNode dereferences flow._nodes: it throws when the flow is null
getNodeThrows(w, i, flowId) ==
    NoFlow = IF flowId # NULL THEN getFlow(w, flowId)
             ELSE getSelectedFlow(w, i)

\* getNodesByType(type): the selected flow's nodes of that type
getNodesByType(w, i, type) ==
    SelectSeq(getSelectedFlow(w, i).nodes, LAMBDA n : n.type = type)

\* nodeExists is evaluated on window.Homer (instance h), whatever instance
\* calls it
nodeExists(w, h, nodeId, flowId) ==
    LET Found(flow) == flow # NoFlow /\ NodeIn(flow, nodeId) # NoNode
    IN  Found(IF flowId # NULL THEN getFlow(w, flowId)
              ELSE getSelectedFlow(w, h))

\* getNodeElement: the node's element with that id, or null
getNodeElement(node, elementId) ==
    LET m == { k \in DOMAIN node.elements : node.elements[k].id = elementId }
    IN  IF m # {} THEN node.elements[Min(m)].id ELSE NULL

\* the element object with that id
ElementById(w, elId) ==
    LET flows == w.pj.flows
    IN  CHOOSE e \in UNION { UNION { { flows[f].nodes[n].elements[k]
                                        : k \in DOMAIN flows[f].nodes[n].elements }
                                      : n \in DOMAIN flows[f].nodes }
                            : f \in DOMAIN flows } : e.id = elId

\* getConnectionsByElementId: the last connection bound to the element
getConnectionsByElementId(node, nodeElementId) ==
    LET m == { k \in DOMAIN node.connections :
                 node.connections[k].nodeElementId = nodeElementId }
    IN  IF m # {} THEN node.connections[Max(m)] ELSE NoConn

\* getFailedConnection: the last connection of type FailCondition
getFailedConnection(node) ==
    LET m == { k \in DOMAIN node.connections :
                 node.connections[k].type = NT_failCondition }
    IN  IF m # {} THEN node.connections[Max(m)] ELSE NoConn

-----------------------------------------------------------------------------
(* Instances *)

Insts == {1, 2}

NoFlags == [e \in ElIds |-> FALSE]

\* the fields the constructor sets before it loads anything
NewInstance ==
    LET Fields(flags) ==
          [constructed |-> TRUE,
           loaded |-> FALSE,
           selectedFlowId |-> NULL,
           selectedNodeId |-> NULL,
           localVars |-> [v \in LocalNames |-> Undef],
           isJumping |-> FALSE,
           locale |-> NULL,
           variations |-> << >>,
           notTranslated |-> flags,
           visited |-> flags,
           justOnce |-> flags,
           ifNoMore |-> flags,
           wasHiddenBecauseEmpty |-> flags]
    IN  Fields(NoFlags)

\* the world an operation works on
World ==
    [pj |-> Project, rt |-> rt, gv |-> globalVariables, sf |-> activeSubFlows]

SetField(w, i, f, val) == [w EXCEPT !.rt[i][f] = val]
SetFlag(w, i, f, elId, b) == [w EXCEPT !.rt[i][f][elId] = b]

-----------------------------------------------------------------------------
(* Localized content *)

\* the element's last entry in that locale, or null
ContentIn(el, localeCode) ==
    LET m == { k \in DOMAIN el.localizedContents :
                 el.localizedContents[k].localeCode = localeCode }
    IN  IF m # {} THEN el.localizedContents[Max(m)] ELSE NoContent

\* "!Homer._project._mainLocale._code === localeCode": the negation of the
\* main locale's code, a boolean, strictly equal to the locale code, a string
NotMainLocale(w, localeCode) ==
    Bool(Falsy(Str(w.pj.mainLocale))) = Str(localeCode)

\* getLocalizedContent(nodeElement, localeCode) on instance i: the content
\* it returns and the _notTranslated flag it sets on it
getLocalizedContent(w, i, el, localeCode) ==
    LET Retry(notTranslated) ==
            [content |-> ContentIn(el, w.pj.mainLocale),
             notTranslated |-> notTranslated]
        Of(node, found, notMain) ==
            IF notMain /\ node # NoNode /\ ~node.translatable
            THEN Retry(FALSE)
            ELSE IF notMain /\ found # NoContent /\ found.parts = << >>
            THEN Retry(TRUE)
            ELSE [content |-> found, notTranslated |-> FALSE]
    IN  Of(getNode(w, i, el.nodeId, NULL), ContentIn(el, localeCode),
           NotMainLocale(w, localeCode))

\* the element with the text of one of its contents
TextIn(el, content) ==
    [id |-> el.id, nodeId |-> el.nodeId, type |-> el.type,
     parts |-> content.parts]

-----------------------------------------------------------------------------
(* Variations: the [[TYPE o1|o2|...]] blocks and their records *)

RECURSIVE Concat(_)
Concat(seqs) == IF seqs = << >> THEN << >> ELSE Head(seqs) \o Concat(Tail(seqs))

\* the elements of the project, flow by flow and node by node
ElementsOf(w) ==
    LET flows == w.pj.flows
    IN  Concat([f \in DOMAIN flows |->
                  Concat([n \in DOMAIN flows[f].nodes |->
                            flows[f].nodes[n].elements])])

RECURSIVE JoinOptions(_)
JoinOptions(options) ==
    IF options = << >> THEN ""
    ELSE IF Tail(options) = << >> THEN Head(options)
    ELSE Head(options) \o "|" \o JoinOptions(Tail(options))

\* the block as it stands in the text
VariationBlock(part) == "[[" \o part.s \o " " \o JoinOptions(part.v) \o "]]"

\* v.replace(type, "").split("|"): the options, the first of them with the
\* blank that followed the type
VariationValues(part) ==
    IF part.v = << >> THEN << "" >>
    ELSE [k \in DOMAIN part.v |-> IF k = 1 THEN " " \o part.v[k] ELSE part.v[k]]

\* the records InitializeVariations pushes for one element: idx is never
\* incremented there, so every record has _index 0
VariationsOf(el, content) ==
    LET blocks == SelectSeq(content.parts, LAMBDA p : p.k = "variation")
    IN  [x \in DOMAIN blocks |->
           [index |-> 0, type |-> blocks[x].s,
            values |-> VariationValues(blocks[x]), elementId |-> el.id]]

\* InitializeVariations() on instance i
InitializeVariations(w, i) ==
    LET Of(el) ==
            IF el.localizedContents = << >> THEN << >>
            ELSE VariationsOf(el, getLocalizedContent(w, i, el,
                                                      w.rt[i].locale).content)
        Records(els) == Concat([x \in DOMAIN els |-> Of(els[x])])
    IN  SetField(w, i, "variations", Records(ElementsOf(w)))

\* load runs InitializeVariations on a project it has just cloned, right
\* after "this._locale = this._project._locale": the records it builds are
\* those of the project in its own locale, whatever the instance
InitialVariations ==
    LET Cloned(inst) ==
            [pj |-> Project,
             rt |-> [i \in Insts |-> inst],
             gv |-> [v \in GlobalNames |-> Undef],
             sf |-> << >>]
    IN  InitializeVariations(
          Cloned([NewInstance EXCEPT !.loaded = TRUE,
                                     !.selectedFlowId = Flows[1].id,
                                     !.locale = Project.locale]),
          1).rt[1].variations

\* getElementVariations(elementId): where the element's records are
getElementVariations(w, i, elementId) ==
    LET Of(variations) ==
            SelectSeq([p \in DOMAIN variations |-> p],
                      LAMBDA p : variations[p].elementId = elementId)
    IN  Of(w.rt[i].variations)

\* Math.floor(Math.random() * n): any index of a list of n entries
RandomIndex(n) == 1 .. n

\* the list stays as it is
SpliceNone(values, x) == values

\* values.splice(x, 1)
Splice(values, x) ==
    [k \in 1 .. Len(values) - 1 |-> IF k < x THEN values[k] ELSE values[k + 1]]

\* the first of the options
FirstOption(variations) == variations[1]

\* what LIST yields when shift() gave nothing: the last of the options
LastOption(variations) == variations[Len(variations)]

\* the switch on persistedVariation._type: the record at pos gives the
\* content, variations are the options of the block just parsed
VariationContent(w, i, pos, variations) ==
    LET rec == w.rt[i].variations[pos]
        Put(values, val) ==
            [w |-> [w EXCEPT !.rt[i].variations[pos].values = values],
             val |-> val]
    IN  CASE rec.type = "LIST" ->
               { IF rec.values = << >> \/ Head(rec.values) = ""
                 THEN Put(IF rec.values = << >> THEN << >>
                          ELSE Tail(rec.values),
                          LastOption(variations))
                 ELSE Put(Tail(rec.values), Head(rec.values)) }
          [] rec.type = "LOOP" ->
               { IF rec.values = << >> THEN Put(variations, "undefined")
                 ELSE Put(IF Tail(rec.values) = << >> THEN variations
                          ELSE Tail(rec.values),
                          Head(rec.values)) }
          [] rec.type = "RND" ->
               { Put(rec.values, variations[x])
                 : x \in RandomIndex(Len(variations)) }
          [] rec.type = "SRND" ->
               { Put(IF Len(rec.values) = 1 THEN variations
                     ELSE Splice(rec.values, x),
                     rec.values[x])
                 : x \in RandomIndex(Len(rec.values)) }
          [] OTHER -> { Put(rec.values, "") }

\* output.replaceAll(block, text) on the text held block by block
ReplaceAll(output, block, text) ==
    [p \in DOMAIN output |-> IF output[p] = block THEN text ELSE output[p]]

\* parsedText's loop over the [[...]] blocks from part k on; idx counts the
\* blocks met, output holds what stands in place of each block
RECURSIVE RenderVariations(_, _, _, _, _, _)
RenderVariations(w, i, el, k, idx, output) ==
    IF k > Len(el.parts)
    THEN { [w |-> w, output |-> output, thrown |-> FALSE] }
    ELSE IF el.parts[k].k # "variation"
    THEN RenderVariations(w, i, el, k + 1, idx, output)
    ELSE LET Drawn(elementVariations) ==
                 IF idx + 1 > Len(elementVariations)
                 THEN { [w |-> w, output |-> output, thrown |-> TRUE] }
                 ELSE UNION {
                        RenderVariations(
                          d.w, i, el, k + 1, idx + 1,
                          ReplaceAll(output, VariationBlock(el.parts[k]),
                                     "<variation>" \o d.val \o "</variation>"))
                        : d \in VariationContent(
                                  w, i, elementVariations[idx + 1],
                                  VariationValues(el.parts[k])) }
         IN  Drawn(getElementVariations(w, i, el.id))

-----------------------------------------------------------------------------
(* Expressions: eval of the text after $name and %name are replaced by     *)
(* Homer._globalVars.name and Homer._localVars.name                        *)

\* findGlobalVariables needs a letter and one more word character after $,
\* findLocalVariables one character after %
VariableFound(ex) ==
    IF ex.scope = "g" THEN Len(ex.name) >= 2 ELSE Len(ex.name) >= 1

\* tmpString.indexOf("=") >= 0
HasEquals(ex) == ex.op \in {"inc3", "inc", "set"}

ReadVar(w, ex) ==
    IF ex.scope = "g" THEN w.gv[ex.name] ELSE w.rt[Homer].localVars[ex.name]

WriteVar(w, ex, val) ==
    IF ex.scope = "g" THEN [w EXCEPT !.gv[ex.name] = val]
    ELSE [w EXCEPT !.rt[Homer].localVars[ex.name] = val]

\* eval did not run, or it threw: parsedText's "evaluated" keeps its
\* initial value
NotEvaluated(w, failed) ==
    [w |-> w, val |-> Str("--error--"), failed |-> failed]

\* the value of the expression and the world after its assignment; failed
\* when eval throws
Eval(w, ex) ==
    LET v == ReadVar(w, ex)
    IN  CASE ex.op = "inc3" ->
               LET nv == IF v.t \in {"num", "bool", "null"}
                         THEN Num((v.n + 1) % 3) ELSE NaN
               IN  [w |-> WriteVar(w, ex, nv), val |-> nv, failed |-> FALSE]
          [] ex.op = "inc" ->
               LET nv == IF v.t \in {"num", "bool", "null"}
                         THEN Num(v.n + 1) ELSE NaN
               IN  [w |-> WriteVar(w, ex, nv), val |-> nv, failed |-> FALSE]
          [] ex.op = "set" ->
               [w |-> WriteVar(w, ex, ex.k), val |-> ex.k, failed |-> FALSE]
          [] ex.op = "gt" ->
               [w |-> w,
                val |-> Bool(v.t \in {"num", "bool", "null"}
                             /\ v.n > ex.k.n),
                failed |-> FALSE]
          [] ex.op = "bad" -> NotEvaluated(w, TRUE)
          [] OTHER -> [w |-> w, val |-> v, failed |-> FALSE]

-----------------------------------------------------------------------------
(* Text templater *)

\* the authored text of an expression
ExprSource(ex) ==
    LET ref == (IF ex.scope = "g" THEN "$" ELSE "%") \o ex.name
    IN  CASE ex.op = "inc3" -> ref \o " = (" \o ref \o " + 1) % 3"
          [] ex.op = "inc" -> ref \o " = " \o ref \o " + 1"
          [] ex.op = "set" -> ref \o " = " \o ValText(ex.k)
          [] ex.op = "gt" -> ref \o " > " \o ValText(ex.k)
          [] ex.op = "bad" -> ref \o " +"
          [] OTHER -> ref

\* the authored text of a {...} block
BlockSource(ex) == "{" \o ExprSource(ex) \o "}"

\* a text as the pieces it is made of; the text " --ERROR-- " is the marker
\* between two blanks
Printed(pieces) == [k |-> "print", s |-> "", e |-> NoExpr, v |-> pieces]
ErrorMarker == << " ", "--ERROR--", " " >>

\* parsedText's loop over the [IF ...] blocks from part k on; prints holds
\* what stands in place of each block, nothing as long as the block stands
RECURSIVE RenderConditionals(_, _, _, _)
RenderConditionals(w, el, k, prints) ==
    IF k > Len(el.parts) THEN [w |-> w, prints |-> prints, thrown |-> FALSE]
    ELSE IF el.parts[k].k # "cond"
    THEN RenderConditionals(w, el, k + 1, prints)
    ELSE LET part == el.parts[k]
             \* output.replaceAll(conditionalInsideText, print)
             ReplaceAllBy(w1, print) ==
                 RenderConditionals(
                   w1, el, k + 1,
                   [p \in DOMAIN prints |->
                      IF /\ el.parts[p].k = "cond"
                         /\ el.parts[p] = part
                         /\ prints[p] = << >>
                      THEN print ELSE prints[p]])
             \* possibleResults[x]: null has no entry (match() found no
             \* quoted arm), and an entry that is not there is undefined
             Arm(w1, x) ==
                 IF part.v = << >>
                 THEN [w |-> w1, prints |-> prints, thrown |-> TRUE]
                 ELSE ReplaceAllBy(w1, IF x <= Len(part.v) THEN << part.v[x] >>
                                       ELSE ErrorMarker)
             \* result != null
             Decided(ev) ==
                 IF ev.failed \/ ev.val.t \in {"undef", "null"}
                 THEN ReplaceAllBy(ev.w, ErrorMarker)
                 ELSE Arm(ev.w, IF Falsy(ev.val) THEN 2 ELSE 1)
         IN  \* eval(str) in a try block: result stays null when it throws
             Decided(IF VariableFound(part.e) THEN Eval(w, part.e)
                     ELSE NotEvaluated(w, TRUE))

\* output.trim() on a text held piece by piece: the blanks at its ends go
RECURSIVE TrimStart(_)
TrimStart(pieces) ==
    IF pieces # << >> /\ Head(pieces) \in {"", " "}
    THEN TrimStart(Tail(pieces)) ELSE pieces

RECURSIVE TrimEnd(_)
TrimEnd(pieces) ==
    IF pieces # << >> /\ pieces[Len(pieces)] \in {"", " "}
    THEN TrimEnd(SubSeq(pieces, 1, Len(pieces) - 1)) ELSE pieces

RECURSIVE JoinText(_)
JoinText(pieces) ==
    IF pieces = << >> THEN "" ELSE Head(pieces) \o JoinText(Tail(pieces))

\* trim(): each step works on the value of the step before
Trimmed(pieces) ==
    CHOOSE text \in { JoinText(q) : q \in { TrimEnd(p)
                                           : p \in { TrimStart(pieces) } } } :
       TRUE

HasPart(el, kind) == \E k \in DOMAIN el.parts : el.parts[k].k = kind

\* the {...} blocks of the text from part k on, left to right: a block with
\* a variable in it is evaluated (a Choice's assignment only when forced) and
\* replaced by the value when it is that variable alone, by "" otherwise
\* a block evaluated whatever the element and the caller
EvaluatedAlways(force_eval, el, ex) == TRUE

\* the test that guards eval of a variable block: a block of a choice element
\* that holds "=" is evaluated only under force_eval
EvaluatedBlock(force_eval, el, ex) ==
    force_eval \/ el.type # NT_choices \/ ~HasEquals(ex)

RECURSIVE RenderParts(_, _, _, _, _)
RenderParts(w, el, k, force_eval, out) ==
    IF k > Len(el.parts) THEN [w |-> w, out |-> out]
    ELSE LET part == el.parts[k]
             run == EvaluatedBlock(force_eval, el, part.e)
             Replaced(ev) ==
                 RenderParts(ev.w, el, k + 1, force_eval,
                             out \o IF part.k = "print" THEN part.v
                                    ELSE IF part.k = "lit" THEN << part.s >>
                                    ELSE IF part.k # "expr" THEN << >>
                                    ELSE IF ~VariableFound(part.e)
                                    THEN << BlockSource(part.e) >>
                                    ELSE IF part.e.op = "show"
                                    THEN << ValText(ev.val) >>
                                    ELSE << >>)
         IN  Replaced(IF part.k = "expr" /\ VariableFound(part.e) /\ run
                      THEN Eval(w, part.e)
                      ELSE NotEvaluated(w, FALSE))

\* parsedText(element, force_eval) called on instance i, for an element
\* object that belongs to the project copy of instance o: the outcomes
parsedText(w, i, o, elId, force_eval) ==
    LET Failed(w0) == [w |-> w0, out |-> "", thrown |-> TRUE]
        \* the marks [-] and [+] set the flags of the element
        Marked(w0, el) ==
            LET w1 == IF HasPart(el, "justOnce")
                      THEN SetFlag(w0, o, "justOnce", elId, TRUE) ELSE w0
            IN  IF HasPart(el, "ifNoMore")
                THEN SetFlag(w1, o, "ifNoMore", elId, TRUE) ELSE w1
        \* the text with every [[...]] block replaced
        Varied(el, v) ==
            [el EXCEPT !.parts = [p \in DOMAIN @ |->
                                    IF @[p].k = "variation"
                                    THEN Lit(v.output[p]) ELSE @[p]]]
        \* the text with every [IF ...] block replaced
        Conditioned(el, c) ==
            [el EXCEPT !.parts = [p \in DOMAIN @ |->
                                    IF @[p].k = "cond"
                                    THEN Printed(c.prints[p]) ELSE @[p]]]
    IN  IF elId = NULL THEN { [w |-> w, out |-> "", thrown |-> FALSE] }
        ELSE IF getSelectedFlow(w, i) = NoFlow THEN { Failed(w) }
        ELSE UNION {
          \* getLocalizedContent(element)._text
          IF lc.content = NoContent THEN { Failed(w) }
          ELSE UNION { UNION {
            IF v.thrown THEN { Failed(v.w) }
            ELSE UNION {
              IF c.thrown THEN { Failed(c.w) }
              ELSE { [w |-> r.w, out |-> Trimmed(r.out), thrown |-> FALSE]
                     : r \in { RenderParts(
                                 Marked(c.w, el),
                                 Conditioned(Varied(el, v), c),
                                 1, force_eval, << >>) } }
              : c \in { RenderConditionals(
                          v.w, el, 1, [p \in DOMAIN el.parts |-> << >>]) } }
            : v \in RenderVariations(
                      SetFlag(w, o, "notTranslated", elId, lc.notTranslated),
                      i, el, 1, 0,
                      [p \in DOMAIN el.parts |->
                         IF el.parts[p].k = "variation"
                         THEN VariationBlock(el.parts[p]) ELSE ""]) }
            : el \in { TextIn(ElementById(w, elId), lc.content) } }
          : lc \in { getLocalizedContent(w, i, ElementById(w, elId),
                                         w.rt[i].locale) } }

-----------------------------------------------------------------------------
(* Element selector *)

Unvisited(inst, node) ==
    SelectSeq([k \in DOMAIN node.elements |-> node.elements[k].id],
              LAMBDA e : ~inst.visited[e])

ElementIdsOf(node) == [k \in DOMAIN node.elements |-> node.elements[k].id]

\* the elements stay visited
KeepVisited(w, i, node) == w

\* every element of the node is unvisited again
ResetVisited(w, i, node) ==
    [w EXCEPT !.rt[i].visited =
        [e \in DOMAIN @ |-> IF \E k \in DOMAIN node.elements :
                                 node.elements[k].id = e
                            THEN FALSE ELSE @[e]]]

\* a selection that leaves the element as it was
LeavePicked(w, j, e) == w

\* possibleElement._visited = true
MarkPicked(w, j, e) == SetFlag(w, j, "visited", e, TRUE)

\* getAvailableNodeElement(nodeId) on instance j: the outcomes, each with the
\* element picked (null when the node is no Text node with a cycle type)
getAvailableNodeElement(w, j, nodeId) ==
    LET Picked(w1, e) ==
            [w |-> MarkPicked(w1, j, e), el |-> e, thrown |-> FALSE]
        None == [w |-> w, el |-> NULL, thrown |-> FALSE]
        Thrown == [w |-> w, el |-> NULL, thrown |-> TRUE]
        \* the unvisited elements, or all of them after a reset
        Refill(node, w1, from, indices) ==
            IF from = << >> THEN { [Thrown EXCEPT !.w = w1] }
            ELSE { Picked(w1, from[x]) : x \in indices }
        Pick(node, all, availableElements) ==
            IF node = NoNode THEN { Thrown }
            ELSE IF node.type # NT_text THEN { None }
            ELSE IF node.cycleType = CT_list
            THEN IF all = << >> THEN { Thrown }
                 ELSE { Picked(w, IF availableElements # << >>
                                  THEN availableElements[1]
                                  ELSE all[Len(all)]) }
            ELSE IF node.cycleType \in {CT_smartRandom, CT_loop}
            THEN IF availableElements # << >>
                 THEN Refill(node, w, availableElements,
                             IF node.cycleType = CT_loop THEN {1}
                             ELSE RandomIndex(Len(availableElements)))
                 ELSE Refill(node, ResetVisited(w, j, node), all,
                             IF node.cycleType = CT_loop THEN {1}
                             ELSE RandomIndex(Len(all)))
            ELSE IF node.cycleType = CT_random
            THEN IF all = << >> THEN { Thrown }
                 ELSE { Picked(w, all[x]) : x \in RandomIndex(Len(all)) }
            ELSE { None }
        Of(node) == Pick(node, ElementIdsOf(node), Unvisited(w.rt[j], node))
    IN  IF getNodeThrows(w, j, NULL) THEN { Thrown }
        ELSE Of(getNode(w, j, nodeId, NULL))

\* an element with [+] that is flagged and not marked visited
FlagIfNoMore(w, i, e) == SetFlag(w, i, "ifNoMore", e, TRUE)

\* nodeElement._ifNoMore = true; nodeElement._visited = true
MarkIfNoMore(w, i, e) ==
    SetFlag(SetFlag(w, i, "ifNoMore", e, TRUE), i, "visited", e, TRUE)

\* a hidden element that stays hidden
StayHidden(w, i, e) == w

\* nodeElement._visited = false; nodeElement._wasHiddenBecauseEmpty = false
Unhide(w, i, e) ==
    SetFlag(SetFlag(w, i, "visited", e, FALSE),
            i, "wasHiddenBecauseEmpty", e, FALSE)

\* one pass of getAvailableChoices' filter over the node's elements from k
\* on: the outcomes
RECURSIVE FilterChoices(_, _, _, _, _)
FilterChoices(w, i, node, k, kept) ==
    IF k > Len(node.elements)
    THEN { [w |-> w, els |-> kept, thrown |-> FALSE] }
    ELSE
      LET el == node.elements[k]
          e == el.id
          rendered == el.type \in {NT_text, NT_choices}
          Keep(w2) ==
              FilterChoices(w2, i, node, k + 1,
                            IF w2.rt[i].visited[e] THEN kept
                            ELSE Append(kept, e))
          IfNoMore(w1, ifNoMoreBlocks) ==
              Keep(IF ifNoMoreBlocks THEN MarkIfNoMore(w1, i, e) ELSE w1)
          Hide(p, ifNoMoreBlocks) ==
              IF p.thrown THEN { [w |-> p.w, els |-> kept, thrown |-> TRUE] }
              ELSE IfNoMore(
                     IF ~rendered THEN p.w
                     ELSE IF p.out = "" /\ ~p.w.rt[i].visited[e]
                     THEN SetFlag(SetFlag(p.w, i, "visited", e, TRUE),
                                  i, "wasHiddenBecauseEmpty", e, TRUE)
                     ELSE IF p.w.rt[i].wasHiddenBecauseEmpty[e] /\ p.out # ""
                     THEN Unhide(p.w, i, e)
                     ELSE p.w,
                     ifNoMoreBlocks)
          \* getOriginalText(nodeElement) reads the _text of the content
          Original(lc) ==
              IF lc.content = NoContent
              THEN { [w |-> w, els |-> kept, thrown |-> TRUE] }
              ELSE UNION { Hide(p, HasPart(lc.content, "ifNoMore"))
                           : p \in IF rendered
                                   THEN parsedText(w, i, i, e, FALSE)
                                   ELSE { [w |-> w, out |-> "",
                                           thrown |-> FALSE] } }
      IN  Original(getLocalizedContent(w, i, el, w.rt[i].locale))

\* when no element is left: no element at all
NoElements(w, i, node) == << >>

\* when no element is left: the elements marked _ifNoMore
IfNoMoreElements(w, i, node) ==
    SelectSeq(ElementIdsOf(node), LAMBDA e : w.rt[i].ifNoMore[e])

\* getAvailableChoices(nodeId) on instance i: the outcomes
getAvailableChoices(w, i, nodeId) ==
    LET Fallback(node, f) ==
            IF f.thrown \/ f.els # << >> THEN f
            ELSE [f EXCEPT !.els = IfNoMoreElements(f.w, i, node)]
        Of(node) ==
            IF node = NoNode THEN { [w |-> w, els |-> << >>, thrown |-> TRUE] }
            ELSE { Fallback(node, f)
                   : f \in FilterChoices(w, i, node, 1, << >>) }
    IN  IF getNodeThrows(w, i, NULL)
        THEN { [w |-> w, els |-> << >>, thrown |-> TRUE] }
        ELSE Of(getNode(w, i, nodeId, NULL))

\* getParsedText(element, force_eval) on instance i: without an element it
\* asks window.Homer for the available element of Homer's current node
getParsedText(w, i, elId, force_eval) ==
    UNION { IF a.thrown THEN { [w |-> a.w, out |-> "", thrown |-> TRUE] }
            ELSE parsedText(a.w, i, IF elId # NULL THEN i ELSE Homer, a.el,
                            force_eval)
            : a \in IF elId # NULL
                    THEN { [w |-> w, el |-> elId, thrown |-> FALSE] }
                    ELSE getAvailableNodeElement(w, Homer, NULL) }

-----------------------------------------------------------------------------
(* Connections *)

\* the empty array a SubFlow node without a SubFlow edge yields: it passes
\* the test !connection and has no _to
EmptyArray == Conn(NULL, "array", ABSENT)

FirstConnection(node) ==
    IF node.connections # << >> THEN node.connections[1] ELSE NoConn

OfType(node, type) == SelectSeq(node.connections, LAMBDA c : c.type = type)
NotOfType(node, type) == SelectSeq(node.connections, LAMBDA c : c.type # type)

\* the Condition case from element k on: every element's text is evaluated,
\* the first truthy one gives the connection
RECURSIVE ConditionElements(_, _, _, _, _)
ConditionElements(w, i, node, k, conn) ==
    IF k > Len(node.elements) THEN [w |-> w, conn |-> conn, thrown |-> FALSE]
    ELSE LET el == node.elements[k]
             Thrown == [w |-> w, conn |-> conn, thrown |-> TRUE]
             Then(ev) ==
                 IF ev.failed THEN Thrown
                 ELSE ConditionElements(ev.w, i, node, k + 1,
                        IF ~Falsy(ev.val) /\ conn = NoConn
                        THEN getConnectionsByElementId(node, el.id)
                        ELSE conn)
             \* eval(getOriginalText(element, true, true)), not guarded
             Condition(parts, m) ==
                 IF m = {} \/ ~VariableFound(parts[Min(m)].e) THEN Thrown
                 ELSE Then(Eval(w, parts[Min(m)].e))
             Original(parts) ==
                 Condition(parts, { x \in DOMAIN parts : parts[x].k = "expr" })
             Of(lc) == IF lc.content = NoContent THEN Thrown
                       ELSE Original(lc.content.parts)
         IN  Of(getLocalizedContent(w, i, el, w.rt[i].locale))

\* the Variables case from element k on: parsedText of every element
RECURSIVE VariablesElements(_, _, _, _)
VariablesElements(w, i, node, k) ==
    IF k > Len(node.elements) THEN { [w |-> w, thrown |-> FALSE] }
    ELSE LET Then(p) == IF p.thrown THEN { [w |-> p.w, thrown |-> TRUE] }
                        ELSE VariablesElements(p.w, i, node, k + 1)
         IN  UNION { Then(p)
                     : p \in parsedText(w, i, i, node.elements[k].id, FALSE) }
\* the element a Sequence node starts with
FirstElement(all) == all[1]

\* node._elements[node._elements.length - 1]._id
LastElement(all) == all[Len(all)]

\* the Sequence case, by cycle type
SequenceConnections(w, i, node) ==
    LET inst == w.rt[i]
        all == ElementIdsOf(node)
        availableElements == Unvisited(inst, node)
        failedConnection == getFailedConnection(node)
        Out(w1, c) == [w |-> w1, conn |-> c, thrown |-> FALSE]
        Thrown == [w |-> w, conn |-> NoConn, thrown |-> TRUE]
    IN  IF node.cycleType = CT_list
        THEN IF availableElements # << >>
             THEN { Out(SetFlag(w, i, "visited", availableElements[1], TRUE),
                        getConnectionsByElementId(node, availableElements[1])) }
             ELSE IF failedConnection # NoConn THEN { Out(w, failedConnection) }
             ELSE IF all = << >> THEN { Thrown }
             ELSE { Out(w, getConnectionsByElementId(node, LastElement(all))) }
        ELSE IF node.cycleType = CT_loop
        THEN IF availableElements # << >>
             THEN { Out(SetFlag(w, i, "visited", availableElements[1], TRUE),
                        getConnectionsByElementId(node, availableElements[1])) }
             ELSE IF all = << >> THEN { Out(w, NoConn) }
             ELSE { Out(ResetVisited(w, i, node),
                        getConnectionsByElementId(node, all[1])) }
        ELSE IF node.cycleType = CT_random
        THEN IF all = << >> THEN { Thrown }
             ELSE { Out(w, getConnectionsByElementId(node, all[x]))
                    : x \in RandomIndex(Len(all)) }
        ELSE IF node.cycleType = CT_smartRandom
        THEN IF availableElements = << >> /\ failedConnection # NoConn
             THEN { Out(w, failedConnection) }
             ELSE LET w1 == IF availableElements = << >>
                            THEN ResetVisited(w, i, node) ELSE w
                      from == IF availableElements = << >> THEN all
                              ELSE availableElements
                  IN  IF from = << >> THEN { [Thrown EXCEPT !.w = w1] }
                      ELSE { Out(w1, getConnectionsByElementId(node, from[x]))
                             : x \in RandomIndex(Len(from)) }
        ELSE { Out(w, NoConn) }

\* a JumpToNode case that leaves the cursor where it is
StayOnJump(w, i, node) == w

\* this._selectedFlowId = node._jumpTo.flowId;
\* this._selectedNodeId = node._jumpTo.nodeId
JumpTo(w, i, node) ==
    [w EXCEPT !.rt[i].selectedFlowId = node.jumpTo.flowId,
              !.rt[i].selectedNodeId = node.jumpTo.nodeId]

\* getAvailableConnections(elementId) on instance i, whose cursor is on node
getAvailableConnections(w, i, node, elementId) ==
    LET inst == w.rt[i]
        Out(w1, c) == [w |-> w1, conn |-> c, thrown |-> FALSE]
    IN  CASE node.type \in {NT_start, NT_text, NT_note, NT_layout} ->
               { Out(w, FirstConnection(node)) }
          [] node.type = NT_subFlow ->
               IF node.connections = << >> THEN { Out(w, NoConn) }
               ELSE IF \A k \in DOMAIN w.sf : w.sf[k].nodeId # node.id
               THEN IF OfType(node, NT_subFlow) # << >>
                    THEN { Out([w EXCEPT !.sf =
                                  << [flowId |-> inst.selectedFlowId,
                                      nodeId |-> node.id] >> \o @],
                               OfType(node, NT_subFlow)[1]) }
                    ELSE { Out(w, EmptyArray) }
               ELSE { Out([w EXCEPT !.sf = Tail(@)],
                          IF NotOfType(node, NT_subFlow) # << >>
                          THEN NotOfType(node, NT_subFlow)[1] ELSE NoConn) }
          [] node.type = NT_choices ->
               { Out(w, getConnectionsByElementId(node, elementId)) }
          [] node.type = NT_condition ->
               { IF c.thrown \/ c.conn # NoConn THEN c
                 ELSE [c EXCEPT !.conn = getFailedConnection(node)]
                 : c \in { ConditionElements(w, i, node, 1, NoConn) } }
          [] node.type = NT_variables ->
               { [w |-> v.w, thrown |-> v.thrown,
                  conn |-> IF v.thrown THEN NoConn
                           ELSE FirstConnection(node)]
                 : v \in VariablesElements(w, i, node, 1) }
          [] node.type = NT_random ->
               IF node.connections = << >> THEN { Out(w, NoConn) }
               ELSE { Out(w, node.connections[x])
                      : x \in RandomIndex(Len(node.connections)) }
          [] node.type = NT_sequence -> SequenceConnections(w, i, node)
          [] node.type = NT_jumpToNode -> { Out(JumpTo(w, i, node), NoConn) }
          [] OTHER -> { Out(w, NoConn) }

-----------------------------------------------------------------------------
(* Loader and cursor entry points *)

\* start(nodeId, flowName) on instance i
start(w, i, nodeId, flowName) ==
    LET Enter(w1, starts) ==
            IF nodeId # NULL
            THEN [w |-> SetField(w1, i, "selectedNodeId", nodeId),
                  thrown |-> FALSE]
            ELSE IF starts = << >> THEN [w |-> w1, thrown |-> TRUE]
            ELSE [w |-> SetField(w1, i, "selectedNodeId", starts[1].id),
                  thrown |-> FALSE]
        Select(w1) == Enter(w1, getNodesByType(w1, i, NT_start))
        Of(flow) ==
            IF ~w.rt[i].loaded \/ flow = NoFlow
            THEN [w |-> w, thrown |-> TRUE]
            ELSE Select(SetField(w, i, "selectedFlowId", flow.id))
        Named(name) == Of(getFlow(w, name))
    IN  IF flowName # NULL THEN Named(flowName)
        ELSE Named(getFlow(w, w.pj.flowGroups[1].flowIds[1]).name)

\* restart written as a call of start(): it reselects the first flow
restartByStart(w, i) == start(w, i, NULL, NULL)

\* restart() on instance i
restart(w, i) ==
    LET Enter(starts) ==
            IF starts = << >> THEN [w |-> w, thrown |-> TRUE]
            ELSE [w |-> SetField(w, i, "selectedNodeId", starts[1].id),
                  thrown |-> FALSE]
    IN  IF getSelectedFlow(w, i) = NoFlow THEN [w |-> w, thrown |-> TRUE]
        ELSE Enter(getNodesByType(w, i, NT_start))

\* no variable taken for a separator
NeverSeparator(variable) == FALSE

\* variable._type is "separator": the variable is a heading of the editor's
\* list of variables and holds no value
IsSeparator(variable) == variable.type = VT_separator

\* load's loop over the project variables, from variable k on
RECURSIVE LoadVariables(_, _, _)
LoadVariables(variables, gv, k) ==
    IF k > Len(variables) THEN gv
    ELSE LET variable == variables[k]
             g1 == IF ~IsSeparator(variable) /\ Falsy(gv[variable.key])
                   THEN [gv EXCEPT ![variable.key] = variable.value]
                   ELSE gv
         IN  LoadVariables(variables,
                           IF variable.type = "bool"
                           THEN [g1 EXCEPT ![variable.key] = EvalValue(@)]
                           ELSE g1,
                           k + 1)

\* resetGlobalVariables' loop, from variable k on
RECURSIVE resetGlobalVariables(_, _, _)
resetGlobalVariables(variables, gv, k) ==
    IF k > Len(variables) THEN gv
    ELSE resetGlobalVariables(
           variables,
           IF ~IsSeparator(variables[k])
           THEN [gv EXCEPT ![variables[k].key] = EvalValue(variables[k].value)]
           ELSE gv,
           k + 1)

\* resetLocalVariables: every local variable becomes null
resetLocalVariables(lv) == [v \in DOMAIN lv |-> Null]

\* a load that builds the records of the project anew
RebuildVariations(w, i) == SetField(w, i, "variations", InitialVariations)

\* "Initialize variations if not already initialized":
\* if (this._variations.length === 0) this.InitializeVariations()
InitializeIfEmpty(w, i) ==
    IF w.rt[i].variations = << >>
    THEN SetField(w, i, "variations", InitialVariations)
    ELSE w

\* load up to its call of start: the project is cloned afresh, so every
\* runtime flag of its elements and nodes starts out unset
LoadProject(w, i, flowName) ==
    LET Unset(flags) == [e \in DOMAIN flags |-> FALSE]
        Seed(w1, flow) ==
            IF flow = NoFlow THEN [w |-> w1, thrown |-> TRUE]
            ELSE start(InitializeIfEmpty(
                         [w1 EXCEPT
                            !.rt[i].selectedFlowId = flow.id,
                            !.rt[i].locale = w.pj.locale,
                            !.gv = LoadVariables(w.pj.variables, @, 1)], i),
                       i, NULL, flow.name)
    IN  Seed([w EXCEPT !.rt[i].loaded = TRUE,
                       !.rt[i].notTranslated = Unset(@),
                       !.rt[i].visited = Unset(@),
                       !.rt[i].justOnce = Unset(@),
                       !.rt[i].ifNoMore = Unset(@),
                       !.rt[i].wasHiddenBecauseEmpty = Unset(@)],
             IF flowName # NULL THEN getFlow(w, flowName) ELSE w.pj.flows[1])

\* load without "HomerParser.activeSubFlows = []"
loadKeepsSubFlows(w, i, flowName) == LoadProject(w, i, flowName)

\* load(project, flowName) on instance i
load(w, i, flowName) ==
    LET Clear(st) == IF st.thrown THEN st
                     ELSE [st EXCEPT !.w.sf = << >>]
    IN  Clear(LoadProject(w, i, flowName))
-----------------------------------------------------------------------------
(* Flow walker: one activation of nextNode *)

NoResult == [kind |-> "none", node |-> NULL, text |-> "", els |-> << >>]
Returned(kind, nodeId) == [NoResult EXCEPT !.kind = kind, !.node = nodeId]

\* an activation ends by returning, by throwing or by calling nextNode()
Return(w, kind, nodeId) ==
    [w |-> w, res |-> Returned(kind, nodeId), again |-> FALSE]
\* a null dereference ends the activation with a TypeError
Throws(w) == [w |-> w, res |-> Returned("TypeError", NULL), again |-> FALSE]
Recurse(w) == [w |-> w, res |-> NoResult, again |-> TRUE]

\* the node types passed through, but for Layout
PassThroughButLayout ==
    {NT_start, NT_note, NT_sequence, NT_random, NT_variables, NT_subFlow,
     NT_jumpToNode, NT_condition}

\* the node types nextNode does not return: it calls itself on them
PassThrough ==
    {NT_start, NT_note, NT_sequence, NT_random, NT_variables, NT_layout,
     NT_subFlow, NT_jumpToNode, NT_condition}

\* from "Get the next node after the transition" to the end of nextNode
AfterTransition(w, i, currentNode) ==
    LET Finish(w3, targetNode) ==
            IF targetNode.type \in PassThrough
            THEN Recurse(SetField(w3, i, "isJumping", FALSE))
            ELSE Return(SetField(w3, i, "isJumping", FALSE), "Emitted",
                        targetNode.id)
        \* the Choice node has no choice left: on to its fail connection
        Failed(w2) ==
            IF getNode(w2, i, NULL, NULL) = NoNode THEN Throws(w2)
            ELSE Recurse(w2)
        Choices(targetNode, ch, failed) ==
            IF ch.thrown THEN Throws(ch.w)
            ELSE IF ch.els # << >> \/ failed = NoConn
            THEN Finish(ch.w, targetNode)
            ELSE Failed(SetField(ch.w, i, "selectedNodeId", failed.to))
        Target(targetNode) ==
            IF targetNode = NoNode THEN { Throws(w) }
            ELSE IF targetNode.type # NT_choices THEN { Finish(w, targetNode) }
            ELSE { Choices(targetNode, ch, getFailedConnection(targetNode))
                   : ch \in getAvailableChoices(w, i, targetNode.id) }
    IN  IF getNodeThrows(w, i, NULL) THEN { Throws(w) }
        ELSE Target(getNode(w, i, NULL, NULL))

\* the flow ends and the cursor stays where it is
EndOnNode(w, i) == Return(w, "Ended", NULL)

\* this._selectedNodeId = "THE END"; return false
EndOfFlow(w, i) ==
    Return(SetField(w, i, "selectedNodeId", THE_END), "Ended", NULL)

\* "Handle cases where no connection or destination node is available"
Transition(w, i, currentNode, connection) ==
    LET subFlow == Head(w.sf)
        Resume(st) ==
            IF st.thrown THEN Throws(st.w)
            ELSE Recurse(SetField(st.w, i, "selectedNodeId", subFlow.nodeId))
    IN  IF (connection = NoConn \/ connection.to = NULL)
           /\ currentNode.type # NT_jumpToNode
        THEN IF w.sf # << >>
             THEN { Resume(IF subFlow.flowId # w.rt[i].selectedFlowId
                           THEN start(w, i, subFlow.nodeId, subFlow.flowId)
                           ELSE [w |-> w, thrown |-> FALSE]) }
             ELSE { EndOfFlow(w, i) }
        ELSE AfterTransition(IF ~w.rt[i].isJumping
                             THEN SetField(w, i, "selectedNodeId",
                                           connection.to)
                             ELSE w,
                             i, currentNode)

\* the chosen element stays as it is
LeaveUnmarked(w, i, nodeElement) == w

\* the chosen element of a Choice node is visited when it is _justOnce
MarkChosen(w, i, nodeElement) ==
    IF nodeElement # NULL /\ w.rt[i].justOnce[nodeElement]
    THEN SetFlag(w, i, "visited", nodeElement, TRUE)
    ELSE w

\* "Handle logic based on the type of the previous node": the worlds the
\* transition starts from, each marked "go", "throw" or "badJump"
Bookkeeping(w, i, currentNode, nodeElement) ==
    LET Go(w1) == { [w |-> w1, kind |-> "go"] }
    IN  IF currentNode.type = NT_choices /\ ~w.rt[i].isJumping
        THEN { [w |-> p.w, kind |-> IF p.thrown THEN "throw" ELSE "go"]
               : p \in getParsedText(MarkChosen(w, i, nodeElement),
                                     i, nodeElement, TRUE) }
        ELSE IF currentNode.type = NT_jumpToNode
        THEN IF ~w.rt[Homer].loaded THEN { [w |-> w, kind |-> "throw"] }
             ELSE IF ~nodeExists(w, Homer, currentNode.jumpTo.nodeId,
                                 currentNode.jumpTo.flowId)
             THEN { [w |-> w, kind |-> "badJump"] }
             ELSE Go(SetField(w, i, "isJumping", TRUE))
        ELSE IF nodeElement # NULL
        THEN Go(SetFlag(w, i, "visited", nodeElement, TRUE))
        ELSE Go(w)

\* nextNode from "If the current node ID is not set" on
nextNodeFrom(w, i, elementId) ==
    IF ~w.rt[i].loaded THEN { Throws(w) }
    ELSE IF /\ w.rt[i].selectedNodeId = NULL
            /\ getNodesByType(w, i, NT_start) = << >>
    THEN { Throws(w) }
    ELSE UNION {
      IF getNodeThrows(w0, i, w0.rt[i].selectedFlowId)
         \/ getNodeThrows(w0, i, NULL)
      THEN { Throws(w0) }
      ELSE UNION {
        IF currentNode = NoNode THEN { Throws(w0) }
        ELSE UNION {
          IF c.thrown THEN { Throws(c.w) }
          ELSE UNION {
            IF b.kind = "throw" THEN { Throws(b.w) }
            ELSE IF b.kind = "badJump"
            THEN { Return(b.w, "BadJump", currentNode.id) }
            ELSE Transition(b.w, i, currentNode,
                            IF c.conn = NoConn
                            THEN getFailedConnection(currentNode)
                            ELSE c.conn)
            : b \in Bookkeeping(c.w, i, currentNode,
                                getNodeElement(currentNode, elementId)) }
          : c \in getAvailableConnections(w0, i, currentNode, elementId) }
        : currentNode \in { getNode(w0, i, w0.rt[i].selectedNodeId,
                                    w0.rt[i].selectedFlowId) } }
      : w0 \in { IF w.rt[i].selectedNodeId = NULL
                 THEN SetField(w, i, "selectedNodeId",
                               getNodesByType(w, i, NT_start)[1].id)
                 ELSE w } }
\* nextNode without its test for "THE END"
nextNodeNoSentinel(w, i, elementId) == nextNodeFrom(w, i, elementId)

\* nextNode(elementId) on instance i: the outcomes of one activation
nextNode(w, i, elementId) ==
    IF w.rt[i].selectedNodeId = THE_END THEN { Return(w, "null", NULL) }
    ELSE nextNodeFrom(w, i, elementId)

-----------------------------------------------------------------------------
(* The host's calls.  The host is single-threaded: it calls an operation    *)
(* only when no other one is running.                                       *)

Operation(name, i, arg) == [name |-> name, inst |-> i, arg |-> arg]

\* the statics after an operation that worked on world w
Commit(w) ==
    /\ rt' = w.rt
    /\ globalVariables' = w.gv
    /\ activeSubFlows' = w.sf

Idle ==
    /\ pc' = "idle"
    /\ walker' = 0
    /\ depth' = 0

\* what the host may pass as a flow name and as an element id
FlowArgs == {NULL} \cup FlowNames
ElementArgs == {NULL} \cup ChoicesIn(StoryFlows)

\* a callback that runs whether load returned or threw
onReadyAnyway(l, count) == count + 1

\* onReady(project): the statement after load, reached when load returned;
\* count is the number of times the callback of this object ran before
onReady(l, count) == IF l.thrown THEN count ELSE count + 1

\* new HomerParser(project, flowName, onReady) with a project object: the
\* new object takes the place of the one the host held in slot i
Construct(i, flowName) ==
    \E l \in { load([World EXCEPT !.rt[i] = NewInstance], i, flowName) } :
        /\ pc = "idle"
        /\ i \notin fetching
        /\ Homer' = i
        /\ Commit(l.w)
        /\ Idle
        /\ fetching' = fetching
        /\ ready' = [ready EXCEPT ![i] = onReady(l, 0)]
        /\ result' = Returned(IF l.thrown THEN "TypeError" ELSE "void", NULL)
        /\ op' = Operation("new", i, flowName)

\* new HomerParser(filePath, flowName, onReady): loadFromFile starts a fetch
ConstructFromFile(i) ==
    /\ pc = "idle"
    /\ i \notin fetching
    /\ Homer' = i
    /\ rt' = [rt EXCEPT ![i] = NewInstance]
    /\ fetching' = fetching \cup {i}
    /\ ready' = [ready EXCEPT ![i] = 0]
    /\ Idle
    /\ result' = Returned("void", NULL)
    /\ op' = Operation("newFromFile", i, NULL)
    /\ UNCHANGED << globalVariables, activeSubFlows >>

\* the fetch of instance i resolves: load(data, flowId, onReady)
FetchResolved(i) ==
    \E l \in { load(World, i, NULL) } :
        /\ pc = "idle"
        /\ i \in fetching
        /\ fetching' = fetching \ {i}
        /\ Commit(l.w)
        /\ ready' = [ready EXCEPT ![i] = onReady(l, @)]
        /\ Idle
        /\ result' = Returned("void", NULL)
        /\ op' = Operation("fetchResolved", i, NULL)
        /\ UNCHANGED << Homer >>

\* the fetch of instance i fails: the catch handler logs the error
FetchRejected(i) ==
    /\ pc = "idle"
    /\ i \in fetching
    /\ fetching' = fetching \ {i}
    /\ Idle
    /\ result' = Returned("void", NULL)
    /\ op' = Operation("fetchRejected", i, NULL)
    /\ UNCHANGED << globalVariables, activeSubFlows, Homer, rt, ready >>

\* the host calls load(project, flowName) on an instance it holds
Load(i, flowName) ==
    \E l \in { load(World, i, flowName) } :
        /\ pc = "idle"
        /\ rt[i].constructed
        /\ Commit(l.w)
        /\ Idle
        /\ result' = Returned(IF l.thrown THEN "TypeError" ELSE "void", NULL)
        /\ op' = Operation("load", i, flowName)
        /\ UNCHANGED << Homer, fetching, ready >>

\* the host calls resetGlobalVariables() on an instance it holds; without a
\* project the read of this._project._variables throws
ResetGlobalVariables(i) ==
    /\ pc = "idle"
    /\ rt[i].constructed
    /\ globalVariables' = IF rt[i].loaded
                          THEN resetGlobalVariables(Project.variables,
                                                    globalVariables, 1)
                          ELSE globalVariables
    /\ Idle
    /\ result' = Returned(IF rt[i].loaded THEN "void" ELSE "TypeError", NULL)
    /\ op' = Operation("resetGlobalVariables", i, NULL)
    /\ UNCHANGED << activeSubFlows, Homer, rt, fetching, ready >>

Start(i, flowName) ==
    \E st \in { start(World, i, NULL, flowName) } :
        /\ pc = "idle"
        /\ rt[i].constructed
        /\ Commit(st.w)
        /\ Idle
        /\ result' = IF st.thrown THEN Returned("TypeError", NULL)
                     ELSE Returned("id", st.w.rt[i].selectedNodeId)
        /\ op' = Operation("start", i, flowName)
        /\ UNCHANGED << Homer, fetching, ready >>

Restart(i) ==
    \E r \in { restart(World, i) } :
        /\ pc = "idle"
        /\ rt[i].constructed
        /\ Commit(r.w)
        /\ Idle
        /\ result' = IF r.thrown THEN Returned("TypeError", NULL)
                     ELSE Returned("id", r.w.rt[i].selectedNodeId)
        /\ op' = Operation("restart", i, NULL)
        /\ UNCHANGED << Homer, fetching, ready >>

\* an activation of nextNode ended with outcome r at call depth d
Activation(i, r, d) ==
    /\ Commit(r.w)
    /\ result' = r.res
    /\ IF r.again
       THEN pc' = "walking" /\ walker' = i /\ depth' = d
       ELSE Idle

\* the host calls nextNode(elementId)
NextNode(i, elementId) ==
    /\ pc = "idle"
    /\ rt[i].constructed
    /\ \E r \in nextNode(World, i, elementId) : Activation(i, r, 1)
    /\ op' = Operation("nextNode", i, elementId)
    /\ UNCHANGED << Homer, fetching, ready >>

\* nextNode calls itself ("return this.nextNode()"): a new activation when
\* the call stack has room for it.  An engine without tail calls throws a
\* RangeError when the stack is full; an engine with proper tail calls
\* reuses the frame.
NextNodeRecurse ==
    /\ pc = "walking"
    /\ \/ \E r \in nextNode(World, walker, NULL) :
             Activation(walker, r, IF depth < StackLimit THEN depth + 1
                                   ELSE depth)
       \/ /\ depth = StackLimit
          /\ Idle
          /\ result' = Returned("RangeError", NULL)
          /\ UNCHANGED << rt, globalVariables, activeSubFlows >>
    /\ UNCHANGED << Homer, op, fetching, ready >>

\* elements the host may hand to getParsedText: one of the current node
HostElements(i) ==
    LET Ids(node) == { node.elements[k].id : k \in DOMAIN node.elements }
    IN  {NULL} \cup Ids(getNode(World, i, NULL, NULL))

\* the host calls getParsedText(element)
GetParsedText(i, elId) ==
    /\ pc = "idle"
    /\ rt[i].constructed
    /\ elId \in HostElements(i)
    /\ \E p \in getParsedText(World, i, elId, FALSE) :
          /\ Commit(p.w)
          /\ result' = IF p.thrown THEN Returned("TypeError", NULL)
                       ELSE [NoResult EXCEPT !.kind = "text", !.text = p.out]
    /\ Idle
    /\ op' = Operation("getParsedText", i, elId)
    /\ UNCHANGED << Homer, fetching, ready >>

\* the host's locale menu: homerDrawer.selectLocale(locale) sets the locale
\* of window.Homer and of its copy of the project, which only load reads
SelectLocale(locale) ==
    /\ pc = "idle"
    /\ Homer # 0
    /\ rt' = [rt EXCEPT ![Homer].locale = locale]
    /\ Idle
    /\ result' = Returned("void", NULL)
    /\ op' = Operation("selectLocale", Homer, locale)
    /\ UNCHANGED << globalVariables, activeSubFlows, Homer, fetching, ready >>

\* the host calls getAvailableChoices(nodeId)
GetAvailableChoices(i, nodeId) ==
    \E c \in getAvailableChoices(World, i, nodeId) :
        /\ pc = "idle"
        /\ rt[i].constructed
        /\ Commit(c.w)
        /\ result' = IF c.thrown THEN Returned("TypeError", NULL)
                     ELSE [NoResult EXCEPT !.kind = "choices", !.els = c.els]
        /\ Idle
        /\ op' = Operation("getAvailableChoices", i, nodeId)
        /\ UNCHANGED << Homer, fetching, ready >>

-----------------------------------------------------------------------------
(* Specifications *)

\* the class is defined and no instance exists yet
Init ==
    /\ globalVariables = [v \in GlobalNames |-> Undef]
    /\ activeSubFlows = << >>
    /\ Homer = 0
    /\ rt = [i \in Insts |-> [NewInstance EXCEPT !.constructed = FALSE]]
    /\ pc = "idle"
    /\ walker = 0
    /\ depth = 0
    /\ result = NoResult
    /\ op = Operation("none", 0, NULL)
    /\ fetching = {}
    /\ ready = [i \in Insts |-> 0]
    /\ run1 = << >>
    /\ run2 = << >>

\* the recorded sessions stay as they are
NoLog == UNCHANGED << run1, run2 >>

\* a host that holds the instances of I
HostCalls(I) ==
    \E i \in I :
       \/ \E f \in FlowArgs : Construct(i, f) /\ NoLog
       \/ ConstructFromFile(i) /\ NoLog
       \/ FetchResolved(i) /\ NoLog
       \/ FetchRejected(i) /\ NoLog
       \/ \E f \in FlowArgs : Load(i, f) /\ NoLog
       \/ \E f \in FlowArgs : Start(i, f) /\ NoLog
       \/ Restart(i) /\ NoLog
       \/ \E e \in ElementArgs : NextNode(i, e) /\ NoLog
       \/ \E e \in ElIds \cup {NULL} : GetParsedText(i, e) /\ NoLog
       \/ GetAvailableChoices(i, NULL) /\ NoLog

\* one story: a single HomerParser instance
Next == HostCalls({1}) \/ (NextNodeRecurse /\ NoLog)

Spec == Init /\ [][Next]_vars

\* two stories in one page: the host plays the first flow on instance 1 and
\* runs a second HomerParser, instance 2, beside it
NextTwo ==
    \/ \E i \in Insts : Construct(i, NULL) /\ NoLog
    \/ Load(1, NULL) /\ NoLog
    \/ Start(1, NULL) /\ NoLog
    \/ \E e \in ElementArgs : NextNode(1, e) /\ NoLog
    \/ NextNode(2, NULL) /\ NoLog
    \/ \E e \in ElIds \cup {NULL} : GetParsedText(1, e) /\ NoLog
    \/ GetAvailableChoices(1, NULL) /\ NoLog
    \/ NextNodeRecurse /\ NoLog

SpecTwo == Init /\ [][NextTwo]_vars

\* what a session records of a call when it returns: the call and its outcome
Entry == [name |-> op'.name, arg |-> op'.arg, out |-> result']
Log1 == run1' = (IF pc' = "idle" THEN Append(run1, Entry) ELSE run1)
           /\ run2' = run2
Log2 == run2' = (IF pc' = "idle" THEN Append(run2, Entry) ELSE run2)
           /\ run1' = run1

\* the first run is on, the second has not begun
InRun1 == rt[1].constructed /\ ~rt[2].constructed
InRun2 == rt[2].constructed
\* the call the second run has to repeat next
Replayed == run1[Len(run2) + 1]

\* two runs of the first flow in one page: a run constructs a HomerParser on
\* the project and calls nextNode and getParsedText; the second run repeats
\* the calls of the first, with the same element ids
NextRuns ==
    \/ ~rt[1].constructed /\ Construct(1, NULL) /\ NoLog
    \/ \E e \in ElementArgs :
          InRun1 /\ Len(run1) < MaxOps /\ NextNode(1, e) /\ Log1
    \/ \E e \in ElIds \cup {NULL} :
          InRun1 /\ Len(run1) < MaxOps /\ GetParsedText(1, e) /\ Log1
    \/ InRun1 /\ NextNodeRecurse /\ Log1
    \/ InRun1 /\ run1 # << >> /\ Construct(2, NULL) /\ NoLog
    \/ /\ InRun2 /\ Len(run2) < Len(run1)
       /\ Replayed.name = "nextNode"
       /\ NextNode(2, Replayed.arg) /\ Log2
    \/ /\ InRun2 /\ Len(run2) < Len(run1)
       /\ Replayed.name = "getParsedText"
       /\ GetParsedText(2, Replayed.arg) /\ Log2
    \/ InRun2 /\ NextNodeRecurse /\ Log2

SpecRuns == Init /\ [][NextRuns]_vars

\* what a session records of a call when it is made: the call, the node the
\* cursor was on, whether the element handed in was hidden because its text
\* was empty, and what the call (nextNode: its first activation) returned
Called ==
    [name |-> op'.name, arg |-> op'.arg,
     node |-> rt[op'.inst].selectedNodeId,
     hidden |-> op'.arg \in ElIds
                /\ rt[op'.inst].wasHiddenBecauseEmpty[op'.arg],
     out |-> result']
\* run1: the texts the session rendered; run2: the choices it made
LogRender == run1' = Append(run1, Called) /\ run2' = run2
LogChoice == run2' = Append(run2, Called) /\ run1' = run1
NewLog == run1' = << >> /\ run2' = << >>

TextChoices == ChoicesIn(TextFlows)
ChoiceNodes == { n.id : n \in { x \in AllNodes : x.type = NT_choices } }
Locales == {MainLocale, "DE", "FR"}

\* a session on the texts, as the example host plays it: it renders a Text
\* node with getParsedText()
NextText ==
    \/ Construct(1, TextFlow.name) /\ NewLog
    \/ NextNode(1, NULL) /\ NoLog
    \/ NextNodeRecurse /\ NoLog
    \/ Len(run1) < MaxRenders /\ GetParsedText(1, NULL) /\ LogRender

SpecText == Init /\ [][NextText]_vars

\* a session on the question: the host lists the choices of a Choice node
\* with getAvailableChoices, renders the elements of the current node with
\* getParsedText(element) and passes the id of a choice to nextNode
NextAsk ==
    \/ Construct(1, AskFlow.name) /\ NewLog
    \/ NextNode(1, NULL) /\ NoLog
    \/ \E e \in TextChoices :
          Len(run2) < MaxOps /\ NextNode(1, e) /\ LogChoice
    \/ NextNodeRecurse /\ NoLog
    \/ GetParsedText(1, NULL) /\ NoLog
    \/ \E e \in ElIds : GetParsedText(1, e) /\ NoLog
    \/ \E n \in {NULL} \cup ChoiceNodes : GetAvailableChoices(1, n) /\ NoLog

SpecAsk == Init /\ [][NextAsk]_vars

\* a session on the greeting with the locale menu, and a host that renders
\* the elements of the current node one by one
NextLocale ==
    \/ Construct(1, GreetFlow.name) /\ NoLog
    \/ \E l \in Locales : SelectLocale(l) /\ NoLog
    \/ NextNode(1, NULL) /\ NoLog
    \/ NextNodeRecurse /\ NoLog
    \/ \E e \in ElIds \cup {NULL} : GetParsedText(1, e) /\ NoLog

SpecLocale == Init /\ [][NextLocale]_vars

\* sessions on the scenarios: the host walks a flow, lists the choices of a
\* Choice node, renders the elements of the current node and passes the id
\* of a choice to nextNode
NextScenes ==
    \/ \E f \in SceneFlowNames : Construct(1, f) /\ NoLog
    \/ NextNode(1, NULL) /\ NoLog
    \/ \E e \in ChoicesIn(SceneFlows) : NextNode(1, e) /\ NoLog
    \/ NextNodeRecurse /\ NoLog
    \/ \E e \in ElIds \cup {NULL} : GetParsedText(1, e) /\ NoLog
    \/ \E n \in {NULL} \cup ChoiceNodes : GetAvailableChoices(1, n) /\ NoLog

SpecScenes == Init /\ [][NextScenes]_vars

\* a host that loads: projects given as objects and as files, flows by name
\* (one of them in no project), reloads, resets of the variables and walks
LoadArgs == {NULL, MainFlow.name, SubFlowFlow.name, S1Flow.name, "missing"}

NextLoad ==
    \/ \E f \in LoadArgs : Construct(1, f) /\ NoLog
    \/ ConstructFromFile(1) /\ NoLog
    \/ FetchResolved(1) /\ NoLog
    \/ FetchRejected(1) /\ NoLog
    \/ \E f \in LoadArgs : Load(1, f) /\ NoLog
    \/ ResetGlobalVariables(1) /\ NoLog
    \/ NextNode(1, NULL) /\ NoLog
    \/ NextNodeRecurse /\ NoLog

SpecLoad == Init /\ [][NextLoad]_vars

\* a session on the jumps and the nested sub-flows: the host walks, lists
\* the choices of the node it is on and passes the id of a choice to nextNode
NextWalk ==
    \/ \E x \in DOMAIN WalkFlows : Construct(1, WalkFlows[x].name) /\ NoLog
    \/ NextNode(1, NULL) /\ NoLog
    \/ \E e \in ChoicesIn(WalkFlows) : NextNode(1, e) /\ NoLog
    \/ NextNodeRecurse /\ NoLog
    \/ GetAvailableChoices(1, NULL) /\ NoLog

SpecWalk == Init /\ [][NextWalk]_vars

\* a session on the Choice node of "pick": the host walks, lists the choices
\* of the node it is on and passes the id of a choice to nextNode; run2
\* holds the choices it made; every node of "pick" is returned by the call
\* that reaches it, so that no call of nextNode goes on in a nested one
NextPick ==
    \/ Construct(1, PickFlow.name) /\ NewLog
    \/ NextNode(1, NULL) /\ NoLog
    \/ \E e \in ChoicesIn(<< PickFlow >>) :
          Len(run2) < MaxOps /\ NextNode(1, e) /\ LogChoice
    \/ GetAvailableChoices(1, NULL) /\ NoLog

SpecPick == Init /\ [][NextPick]_vars

\* a session with reloads on the texts: the host constructs the parser on
\* the project or on its file, loads the project again, walks, and renders
\* the Text nodes nl and ns, each of which holds a variation block
\* a session on the choices that hold variation blocks: the host lists
\* them, renders them and chooses among them
NextOffer ==
    \/ Construct(1, OfferFlow.name) /\ NoLog
    \/ NextNode(1, NULL) /\ NoLog
    \/ \E e \in ChoicesIn(OfferFlows) : NextNode(1, e) /\ NoLog
    \/ NextNodeRecurse /\ NoLog
    \/ GetAvailableChoices(1, NULL) /\ NoLog
    \/ \E e \in ChoicesIn(OfferFlows) : GetParsedText(1, e) /\ NoLog
SpecOffer == Init /\ [][NextOffer]_vars

NextReload ==
    \/ Construct(1, TextFlow.name) /\ NoLog
    \/ ConstructFromFile(1) /\ NoLog
    \/ FetchResolved(1) /\ NoLog
    \/ FetchRejected(1) /\ NoLog
    \/ Load(1, TextFlow.name) /\ NoLog
    \/ NextNode(1, NULL) /\ NoLog
    \/ NextNodeRecurse /\ NoLog
    \/ rt[1].selectedNodeId \in {"nl", "ns"} /\ GetParsedText(1, NULL) /\ NoLog

SpecReload == Init /\ [][NextReload]_vars

\* a session on the cycles: the host walks with nextNode() and, on the Text
\* node ts, selects an element with getParsedText(); run1 holds what the
\* calls of nextNode returned, run2 the texts of ts
NextSequence ==
    \/ \E x \in DOMAIN SequenceFlows :
          Construct(1, SequenceFlows[x].name) /\ NewLog
    \/ Len(run1) < MaxTraversals /\ NextNode(1, NULL) /\ Log1
    \/ NextNodeRecurse /\ Log1
    \/ /\ Len(run2) < MaxTraversals
       /\ rt[1].selectedNodeId = "ts"
       /\ GetParsedText(1, NULL) /\ LogChoice

SpecSequence == Init /\ [][NextSequence]_vars

-----------------------------------------------------------------------------
(* Properties *)

\* the step is the host's call nextNode(...) on instance j
NextNodeCalled(j) == pc = "idle" /\ op'.name = "nextNode" /\ op'.inst = j

\* the step is an activation of nextNode on instance j
Activated(j) ==
    \/ NextNodeCalled(j)
    \/ pc = "walking" /\ walker = j /\ result'.kind # "RangeError"

\* the node under the cursor of instance j
Current(j) == getNode(World, j, rt[j].selectedNodeId, rt[j].selectedFlowId)

OnStack(nodeId) == \E k \in DOMAIN activeSubFlows : activeSubFlows[k].nodeId = nodeId

\* the operation that returned last was a load that completed
Loaded(j) ==
    /\ pc = "idle"
    /\ op.inst = j
    /\ op.name \in {"new", "load", "fetchResolved"}
    /\ result.kind = "void"
    /\ rt[j].loaded

\* the flow load was asked for: the named one, or the first
FlowLoaded == IF op.arg = NULL THEN Flows[1] ELSE getFlow(World, op.arg)

\* C1: at "THE END" a nextNode call, whatever its element id, returns null
\* and changes nothing of the runtime
C1_TheEndIsTerminal ==
    [][\A j \in Insts :
         NextNodeCalled(j) /\ rt[j].selectedNodeId = THE_END
         => /\ result'.kind = "null"
            /\ pc' = "idle"
            /\ UNCHANGED << rt, globalVariables, activeSubFlows >>]_vars

C1_Witness ==
    /\ op.name = "nextNode"
    /\ op.arg # NULL
    /\ result.kind = "null"
    /\ rt[1].selectedNodeId = THE_END
    /\ rt[1].localVars["l"] = Num(1)
    /\ \E e \in ElIds : rt[1].visited[e]

\* C2: a SubFlow node that is not on the stack pushes (flow, node) and the
\* walk goes on at the target of its SubFlow edge; a node without outgoing
\* connections sends the walk back to the SubFlow node on top of the stack;
\* that node then pops its entry and the walk goes on at the target of its
\* other edge
C2_SubFlowReturn ==
    [][\A j \in Insts :
         Activated(j) /\ rt[j].loaded /\ rt[j].selectedNodeId # THE_END
         => LET node == Current(j)
                call == OfType(node, NT_subFlow)
                exit == NotOfType(node, NT_subFlow)
            IN  /\ node.type = NT_subFlow /\ ~OnStack(node.id) /\ call # << >>
                   => /\ activeSubFlows' =
                           << [flowId |-> rt[j].selectedFlowId,
                               nodeId |-> node.id] >> \o activeSubFlows
                      /\ rt'[j].selectedNodeId = call[1].to
                /\ node.type \notin {"none", NT_jumpToNode}
                   /\ node.connections = << >> /\ activeSubFlows # << >>
                   => /\ rt'[j].selectedNodeId = Head(activeSubFlows).nodeId
                      /\ rt'[j].selectedFlowId = Head(activeSubFlows).flowId
                      /\ activeSubFlows' = activeSubFlows
                      /\ pc' = "walking"
                /\ node.type = NT_subFlow /\ activeSubFlows # << >>
                   /\ Head(activeSubFlows).nodeId = node.id /\ exit # << >>
                   => /\ activeSubFlows' = Tail(activeSubFlows)
                      /\ rt'[j].selectedNodeId = exit[1].to]_vars

\* C3: after a BadJump the cursor is still on the JumpToNode node returned
C3_BadJumpKeepsCursor ==
    pc = "idle" /\ result.kind = "BadJump"
    => /\ rt[op.inst].selectedNodeId = result.node
       /\ NodeIn(getSelectedFlow(World, op.inst), result.node) # NoNode

\* C4: no nextNode call uses up the call stack: each returns after a bounded
\* number of activations
C4_NextNodeReturns == result.kind # "RangeError"

\* the step belongs to one of the operations load, start, nextNode,
\* getParsedText, getAvailableChoices on instance a
OperationOn(a) ==
    \/ /\ pc = "idle"
       /\ op'.inst = a
       /\ op'.name \in {"load", "start", "nextNode", "getParsedText",
                        "getAvailableChoices"}
    \/ pc = "walking" /\ walker = a

\* C5: an operation on one instance leaves the other instance's cursor,
\* local variables and flags, and the global variables and sub-flow stack
\* it reads, as they are
C5_InstancesIsolated ==
    [][\A a, b \in Insts :
         a # b /\ rt[b].constructed /\ OperationOn(a)
         => /\ rt'[b] = rt[b]
            /\ UNCHANGED << globalVariables, activeSubFlows >>]_vars

\* C6: the second run returns, call by call, what the first run returned
C6_RunsAgree ==
    \A k \in 1 .. Len(run2) : run2[k].out = run1[k].out

\* C7: after load every project variable that is no separator has its
\* initial value in the global store
C7_LoadReseedsGlobals ==
    \A j \in Insts : Loaded(j)
       => \A k \in DOMAIN ProjectVariables :
             ProjectVariables[k].type # VT_separator
             => globalVariables[ProjectVariables[k].key]
                  = EvalValue(ProjectVariables[k].value)

\* C8: after load no local variable holds a value
C8_LoadClearsLocals ==
    \A j \in Insts : Loaded(j)
       => \A v \in LocalNames : rt[j].localVars[v] \in {Undef, Null}

\* C9: after load no element is visited, the sub-flow stack is empty and the
\* cursor is on the Start node of the flow asked for
C9_LoadResetsWalker ==
    \A j \in Insts : Loaded(j)
       => /\ \A e \in ElIds : ~rt[j].visited[e]
          /\ activeSubFlows = << >>
          /\ rt[j].selectedFlowId = FlowLoaded.id
          /\ Current(j).type = NT_start
          /\ NodeIn(FlowLoaded, rt[j].selectedNodeId) # NoNode

C9_Witness ==
    /\ Loaded(1)
    /\ op.name = "load"
    /\ op.arg = "sub"
    /\ rt[1].localVars["l"] = Num(1)
    /\ globalVariables["flag"] = Bool(TRUE)

\* C10: restart moves the cursor to the Start node of the selected flow and
\* changes nothing else
C10_RestartMovesCursorOnly ==
    [][\A j \in Insts :
         pc = "idle" /\ op'.name = "restart" /\ op'.inst = j
         => /\ rt' = [rt EXCEPT ![j].selectedNodeId = rt'[j].selectedNodeId]
            /\ UNCHANGED << globalVariables, activeSubFlows >>
            /\ result'.kind = "id"
               => /\ rt'[j].selectedNodeId = result'.node
                  /\ NodeIn(getSelectedFlow(World, j), result'.node).type
                       = NT_start]_vars

C10_Witness ==
    /\ op.name = "restart"
    /\ result.kind = "id"
    /\ rt[1].selectedNodeId = "s2"
    /\ activeSubFlows # << >>
    /\ rt[1].localVars["l"] = Num(1)
    /\ \E e \in ElIds : rt[1].visited[e]


\* the step is the host's call getParsedText(e) on instance j
Rendered(j, e) == pc = "idle" /\ op' = Operation("getParsedText", j, e)

\* the element has no content for the locale and a text in the main locale
Untranslated(e, locale) ==
    /\ locale # Project.mainLocale
    /\ ContentIn(ElementById(World, e), locale) = NoContent
    /\ ContentIn(ElementById(World, e), Project.mainLocale).parts # << >>

\* what the element renders to in the main locale
MainRendering(j, e) ==
    { p.out : p \in parsedText([World EXCEPT !.rt[j].locale =
                                                Project.mainLocale],
                                j, j, e, FALSE) }

\* C11: when the element has no content for the current locale, which is not
\* the main locale, and a non-empty text in the main locale, getParsedText
\* returns the rendering of the main-locale text and the element carries
\* notTranslated = true.
C11_LocaleFallback ==
    [][\A e \in ElIds :
          Rendered(1, e) /\ Untranslated(e, rt[1].locale)
          => /\ result'.kind = "text"
             /\ result'.text \in MainRendering(1, e)
             /\ rt'[1].notTranslated[e]]_vars


\* the element has a {...} block whose expression does not evaluate
Fails(el) ==
    \E k \in DOMAIN el.localizedContents :
       \E p \in DOMAIN el.localizedContents[k].parts :
          /\ el.localizedContents[k].parts[p].k = "expr"
          /\ el.localizedContents[k].parts[p].e.op = "bad"

\* the text of plain parts and failing blocks from part k on, with the
\* marker in the place of each failing block
RECURSIVE WithMarker(_, _)
WithMarker(parts, k) ==
    IF k > Len(parts) THEN ""
    ELSE (IF parts[k].k = "lit" THEN parts[k].s ELSE "--error--")
         \o WithMarker(parts, k + 1)

\* C12: no operation aborts because an expression fails to evaluate: the
\* render of a text with a failing {...} block returns the text with the
\* error marker in the place of the block, and nextNode on a Condition node
\* one of whose elements has a failing expression returns an outcome.
C12_FailingExpressionNoAbort ==
    [][/\ \A e \in ElIds :
            Rendered(1, e) /\ Fails(ElementById(World, e))
            /\ ElementById(World, e).type = NT_text
            => /\ result'.kind = "text"
               /\ result'.text =
                    WithMarker(ContentIn(ElementById(World, e),
                                         rt[1].locale).parts, 1)
       /\ Activated(1) /\ rt[1].loaded /\ Current(1).type = NT_condition
          /\ (\E k \in DOMAIN Current(1).elements :
                 Fails(Current(1).elements[k]))
          => result'.kind \in {"Emitted", "Ended", "none"}]_vars


\* the step is the host's call getAvailableChoices(nodeId) on instance j
Listed(j) ==
    pc = "idle" /\ op'.name = "getAvailableChoices" /\ op'.inst = j

\* the node the call is about
ListedNode(j) ==
    IF op'.arg = NULL THEN Current(j) ELSE getNode(World, j, op'.arg, NULL)

\* the ids of the node's elements with the [+] marker, and of the others
WithIfNoMore(node) ==
    { node.elements[k].id
      : k \in { x \in DOMAIN node.elements
                : HasPart(ContentIn(node.elements[x], Project.mainLocale),
                          "ifNoMore") } }
WithoutIfNoMore(node) ==
    { node.elements[k].id : k \in DOMAIN node.elements } \ WithIfNoMore(node)

\* every element of the node without [+] has visited = true
Exhausted(j, node) ==
    /\ node.type = NT_choices
    /\ \A e \in WithoutIfNoMore(node) : rt[j].visited[e]

\* the call returns exactly the elements with [+]
ReturnsIfNoMore(node) ==
    /\ result'.kind = "choices"
    /\ { result'.els[k] : k \in DOMAIN result'.els } = WithIfNoMore(node)

\* C13 as stated: once every element of a Choice node without the [+]
\* marker has visited = true, getAvailableChoices returns exactly the
\* elements with [+].
C13_ChoiceExhaustion ==
    [][Listed(1) /\ rt[1].loaded /\ Exhausted(1, ListedNode(1))
       => ReturnsIfNoMore(ListedNode(1))]_vars

\* C13 amended: once every element of a Choice node without the [+] marker
\* has visited = true and none of them is marked as hidden because its text
\* was empty, getAvailableChoices returns exactly the elements with [+].
C13_ChoiceExhaustionUnhidden ==
    [][/\ Listed(1) /\ rt[1].loaded /\ Exhausted(1, ListedNode(1))
       /\ \A e \in WithoutIfNoMore(ListedNode(1)) :
             ~rt[1].wasHiddenBecauseEmpty[e]
       => ReturnsIfNoMore(ListedNode(1))]_vars

\* both just-once choices were chosen and the call returned the fallback
C13_Witness ==
    /\ pc = "idle"
    /\ op.name = "getAvailableChoices"
    /\ result.kind = "choices"
    /\ result.els = << "eq3" >>
    /\ Len(run2) >= 2
    /\ rt[1].visited["eq1"] /\ rt[1].visited["eq2"]
    /\ ~rt[1].wasHiddenBecauseEmpty["eq2"]
    /\ globalVariables["name"] = Str("x")


\* the element carries the [-] marker
JustOnce(e) ==
    HasPart(ContentIn(ElementById(World, e), Project.mainLocale), "justOnce")

\* the k-th choice of the session chose an element of the node the cursor
\* was on, and nextNode did not throw
Chose(k) ==
    /\ run2[k].node = ElementById(World, run2[k].arg).nodeId
    /\ run2[k].out.kind # "TypeError"

\* C14 as stated: after a Choice element marked [-] has been chosen through
\* nextNode(elementId), its visited flag is true in every later state of
\* the session.
C14_VisitedForever ==
    \A k \in DOMAIN run2 :
       Chose(k) /\ JustOnce(run2[k].arg) => rt[1].visited[run2[k].arg]

\* C14 amended: after a Choice element marked [-] that was not hidden
\* because its text was empty has been chosen through nextNode(elementId),
\* its visited flag is true in every later state of the session.
C14_VisitedForeverOffered ==
    \A k \in DOMAIN run2 :
       Chose(k) /\ JustOnce(run2[k].arg) /\ ~run2[k].hidden
       => rt[1].visited[run2[k].arg]

\* eq1 was chosen first, later eq2, and the walk is back on the Choice node
C14_Witness ==
    /\ pc = "idle"
    /\ Len(run2) >= 2
    /\ run2[1].arg = "eq1" /\ Chose(1) /\ ~run2[1].hidden
    /\ run2[2].arg = "eq2" /\ Chose(2) /\ ~run2[2].hidden
    /\ rt[1].selectedNodeId = "cq"
    /\ op.name = "getAvailableChoices"
    /\ rt[1].visited["eq1"] /\ rt[1].visited["eq2"]


\* the texts the session rendered with getParsedText() on a node, in order
RendersAt(nodeId) ==
    SelectSeq(run1, LAMBDA c : c.node = nodeId /\ c.name = "getParsedText"
                               /\ c.arg = NULL)

\* the authored text of the k-th element of a node, counted cyclically
TextOfElement(node, k) ==
    ContentIn(node.elements[((k - 1) % Len(node.elements)) + 1],
              Project.mainLocale).parts[1].s

\* C15: on a Text node with cycle type Loop, the element selections of
\* getParsedText(), starting from all elements unvisited, return the
\* elements in source order again and again: A, B, A, B for [A, B].
C15_LoopClosure ==
    \A n \in { x \in AllNodes : x.type = NT_text /\ x.cycleType = CT_loop } :
       \A k \in DOMAIN RendersAt(n.id) :
          /\ RendersAt(n.id)[k].out.kind = "text"
          /\ RendersAt(n.id)[k].out.text = TextOfElement(n, k)

\* four selections on the Loop node have returned A, B, A, B
C15_Witness ==
    /\ Len(RendersAt("lp")) >= 4
    /\ [k \in 1 .. 4 |-> RendersAt("lp")[k].out.text] = << "A", "B", "A", "B" >>


\* what stands in the output in the place of a block
Wrapped(val) == "<variation>" \o val \o "</variation>"

\* the Text nodes whose one element is a single block of the type
SingleBlock(type) ==
    { n \in AllNodes :
        /\ n.type = NT_text /\ Len(n.elements) = 1
        /\ Len(ContentIn(n.elements[1], Project.mainLocale).parts) = 1
        /\ ContentIn(n.elements[1], Project.mainLocale).parts[1].k = "variation"
        /\ ContentIn(n.elements[1], Project.mainLocale).parts[1].s = type }

\* the options of the node's block as parsedText splits them: the first
\* keeps the blank that follows the type
OptionsOf(n) ==
    VariationValues(ContentIn(n.elements[1], Project.mainLocale).parts[1])

\* C16: a block [[LIST v1|...|vN]] rendered again and again yields its
\* options in order (each as the block's text is split: the first with the
\* blank that follows the type) for the first N renders and vN for every
\* render after that.
C16_ListSticky ==
    \A n \in SingleBlock("LIST") :
       \A k \in DOMAIN RendersAt(n.id) :
          /\ RendersAt(n.id)[k].out.kind = "text"
          /\ RendersAt(n.id)[k].out.text =
               Wrapped(OptionsOf(n)[Min({k, Len(OptionsOf(n))})])

\* [[LIST a|b|c]] was rendered five times: a, b, c, c, c
C16_Witness ==
    /\ Len(RendersAt("nl")) >= 5
    /\ [k \in 1 .. 5 |-> RendersAt("nl")[k].out.text]
         = << Wrapped(" a"), Wrapped("b"), Wrapped("c"), Wrapped("c"),
              Wrapped("c") >>


\* the values left in the first variation record of the node's element
Remaining(n) ==
    rt[1].variations[getElementVariations(World, 1, n.elements[1].id)[1]].values

\* C17: for a single block [[SRND v1|...|vN]], every N renders that start
\* from a full list of remaining values yield each option once, and the
\* list of remaining values holds the options not yet drawn in the current
\* N renders: it is refilled exactly when it becomes empty.
C17_SmartRandomNoRepeat ==
    \A n \in SingleBlock("SRND") :
       LET renders == RendersAt(n.id)
           N == Len(OptionsOf(n))
           options == { Wrapped(OptionsOf(n)[x]) : x \in 1 .. N }
           \* what the renders under way since the last refill have yielded
           drawn == { renders[k].out.text
                      : k \in { x \in DOMAIN renders
                                : (x - 1) \div N = Len(renders) \div N } }
       IN  /\ \A k \in DOMAIN renders :
                /\ renders[k].out.kind = "text"
                /\ renders[k].out.text \in options
           /\ \A k1, k2 \in DOMAIN renders :
                k1 < k2 /\ (k1 - 1) \div N = (k2 - 1) \div N
                => renders[k1].out.text # renders[k2].out.text
           /\ rt[1].loaded
              => /\ Len(Remaining(n)) = N - (Len(renders) % N)
                 /\ { Wrapped(Remaining(n)[x]) : x \in DOMAIN Remaining(n) }
                      = options \ drawn

\* [[SRND a|b|c]] was rendered six times
C17_Witness ==
    /\ Len(RendersAt("ns")) = 6
    /\ RendersAt("ns")[3].out.text # RendersAt("ns")[4].out.text
    /\ Len(Remaining(NodeIn(TextFlow, "ns"))) = 3


\* the step is the host's call getParsedText() on instance j
RenderedCurrent(j) == Rendered(j, NULL)

\* the variation blocks of a text, left to right
BlocksOf(parts) == SelectSeq(parts, LAMBDA p : p.k = "variation")

\* what the blocks from the m-th on yield when the m-th block draws from the
\* m-th record of the element and from no other: the texts, each with the
\* records as they are left
RECURSIVE DrawnInTurn(_, _, _)
DrawnInTurn(blocks, records, m) ==
    IF m > Len(blocks)
    THEN { [text |-> "", variations |-> rt[1].variations] }
    ELSE { [text |-> Wrapped(d.val) \o rest.text,
            variations |-> [rest.variations EXCEPT ![records[m]] =
                              d.w.rt[1].variations[records[m]]]]
           : d \in VariationContent(World, 1, records[m],
                                     VariationValues(blocks[m])),
             rest \in DrawnInTurn(blocks, records, m + 1) }

\* the Text nodes whose one element is made of two or more blocks
SeveralBlocks ==
    { n \in AllNodes :
        /\ n.type = NT_text /\ Len(n.elements) = 1
        /\ Len(ContentIn(n.elements[1], Project.mainLocale).parts) >= 2
        /\ BlocksOf(ContentIn(n.elements[1], Project.mainLocale).parts)
             = ContentIn(n.elements[1], Project.mainLocale).parts }

\* C18: when an element with several variation blocks is rendered, the i-th
\* block advances the i-th variation record of the element and no other
\* record, and stands in the output as the value drawn from that record.
C18_VariationIndexStable ==
    [][\A n \in SeveralBlocks :
          RenderedCurrent(1) /\ rt[1].loaded /\ rt[1].selectedNodeId = n.id
          => /\ result'.kind = "text"
             /\ [text |-> result'.text, variations |-> rt'[1].variations]
                  \in DrawnInTurn(
                        ContentIn(n.elements[1], Project.mainLocale).parts,
                        getElementVariations(World, 1, n.elements[1].id),
                        1)]_vars


\* the type of the node with the id
TypeOf(nodeId) == { n.type : n \in { x \in AllNodes : x.id = nodeId } }

\* C19: whenever nextNode returns Emitted(node), the node is none of Start,
\* Note, Sequence, Random, Variables, Layout, SubFlow, JumpToNode,
\* Condition: the walker passes through the nodes of those types.
C19_PassThroughNotEmitted ==
    result.kind = "Emitted"
    => TypeOf(result.node) \cap
         {"Start", "Note", "Sequence", "Random", "Variables", "Layout",
          "SubFlow", "JumpToNode", "Condition"} = {}

\* the walk from the Start node of "sub" went through the Layout, Sequence,
\* Random, Condition and SubFlow nodes and returned the Text node t3
C19_Witness ==
    /\ pc = "idle"
    /\ op.name = "nextNode"
    /\ result.kind = "Emitted"
    /\ result.node = "t3"
    /\ activeSubFlows = << [flowId |-> "f2", nodeId |-> "sf1"] >>


\* the element id the activation works with: the host's on its call, none
\* when nextNode called itself
ElementOf(j) == IF pc = "idle" THEN op'.arg ELSE NULL

\* the node has no connection to go on with and no fail-connection
NoWayOn(j, node) ==
    /\ getFailedConnection(node) = NoConn
    /\ \A c \in getAvailableConnections(World, j, node, ElementOf(j)) :
          ~c.thrown /\ (c.conn = NoConn \/ c.conn.to = NULL)

\* C20: when the current node has neither an available connection nor a
\* fail-connection, is not a JumpToNode, and activeSubFlows is empty,
\* nextNode sets the cursor to "THE END" and returns Ended; and nextNode
\* never sets the cursor to "THE END" while activeSubFlows is not empty.
C20_EndOfFlow ==
    [][\A j \in Insts :
         Activated(j) /\ rt[j].loaded /\ rt[j].selectedNodeId # THE_END
         => /\ /\ Current(j) # NoNode
               /\ Current(j).type # NT_jumpToNode
               /\ NoWayOn(j, Current(j))
               /\ activeSubFlows = << >>
               => /\ rt'[j].selectedNodeId = THE_END
                  /\ result'.kind = "Ended"
            /\ rt'[j].selectedNodeId = THE_END => activeSubFlows' = << >>]_vars

\* the flow "leak" has ended on a node without connections after the
\* sub-flow stack was emptied
C20_Witness ==
    /\ pc = "idle"
    /\ op.name = "nextNode"
    /\ result.kind = "Ended"
    /\ rt[1].selectedNodeId = THE_END
    /\ rt[1].selectedFlowId = "f4"
    /\ activeSubFlows = << >>
    /\ rt[1].wasHiddenBecauseEmpty["ec4"]


\* instance j is loaded and its cursor is on the node of the flow
On(j, flow, nodeId) ==
    /\ rt[j].loaded
    /\ rt[j].selectedFlowId = flow.id
    /\ rt[j].selectedNodeId = nodeId

\* C21: scenario S1: with $n = 0, the walk from the Start node passes the
\* Variables node with the element {$n = $n + 1}, which sets n to 1, and
\* returns the Text node; getParsedText then renders its text "n={$n}" as
\* "n=" followed by the value of n, "n=1".
C21_ScenarioS1 ==
    [][/\ Activated(1) /\ On(1, S1Flow, "vn")
          /\ globalVariables["n"] = Num(0)
          => /\ result' = Returned("Emitted", "tn")
             /\ globalVariables'["n"] = Num(1)
       /\ \A e \in {NULL, "etn"} :
             Rendered(1, e) /\ On(1, S1Flow, "tn")
             => /\ result'.kind = "text"
                /\ result'.text = "n=" \o ValText(globalVariables["n"])]_vars


\* the expression of a Condition element: the {...} block of its text
ConditionOf(el) ==
    LET parts == ContentIn(el, Project.mainLocale).parts
    IN  parts[Min({ x \in DOMAIN parts : parts[x].k = "expr" })].e

\* every element of the node compares a global variable with a number
Comparisons(node) ==
    \A k \in DOMAIN node.elements : ConditionOf(node.elements[k]).op = "gt"

\* the comparison is true of the variable it names
Truthy(el) ==
    /\ globalVariables[ConditionOf(el).name].t = "num"
    /\ globalVariables[ConditionOf(el).name].n > ConditionOf(el).k.n

\* C22: on a Condition node the walker takes the connection bound to the
\* first element, in source order, whose expression is truthy, and the
\* node's fail-connection when no element is truthy: with $n = 0 and the one
\* element {$n > 0} the walk goes on to the Text "zero" of the
\* fail-connection.
C22_ConditionDispatch ==
    [][\A j \in Insts :
         Activated(j) /\ rt[j].loaded /\ Current(j).type = NT_condition
         /\ Comparisons(Current(j))
         => LET node == Current(j)
                truthy == { k \in DOMAIN node.elements :
                              Truthy(node.elements[k]) }
                taken == IF truthy # {}
                         THEN getConnectionsByElementId(
                                node, node.elements[Min(truthy)].id)
                         ELSE getFailedConnection(node)
            IN  /\ result'.kind # "TypeError"
                /\ rt'[j].selectedNodeId = taken.to]_vars


\* the authored text of the element in the main locale
PartsOf(e) == ContentIn(ElementById(World, e), Project.mainLocale).parts

\* what stands for an [IF ...] block when its condition is read as it is
\* written: the first arm when it is truthy, the second when it is falsy, the
\* marker when it is no expression or the arm is not there
ArmOrMarker(part) ==
    LET Of(x) == IF part.e.op = "bad" \/ x > Len(part.v) THEN ErrorMarker
                 ELSE << part.v[x] >>
    IN  Of(IF part.e.op = "gt"
           THEN (IF ReadVar(World, part.e).t = "num"
                    /\ ReadVar(World, part.e).n > part.e.k.n THEN 1 ELSE 2)
           ELSE IF Falsy(ReadVar(World, part.e)) THEN 2 ELSE 1)

\* the text from part k on with every [IF ...] block decided that way
RECURSIVE WithArms(_, _)
WithArms(parts, k) ==
    IF k > Len(parts) THEN << >>
    ELSE (IF parts[k].k = "cond" THEN ArmOrMarker(parts[k])
          ELSE << parts[k].s >>) \o WithArms(parts, k + 1)

\* C23: the render of a text with a block [IF cond ? arms] never aborts: it
\* returns the text with the first quoted arm in the place of the block when
\* cond is truthy, the second when cond is falsy, and the marker --ERROR--
\* when cond does not evaluate or when the arm selected is missing (one arm
\* or none).
C23_InlineConditional ==
    [][\A e \in ElIds :
          Rendered(1, e) /\ rt[1].loaded /\ HasPart(ElementById(World, e)
                                                      .localizedContents[1],
                                                    "cond")
          => /\ result'.kind = "text"
             /\ result'.text = Trimmed(WithArms(PartsOf(e), 1))]_vars


\* C24: an assignment in a {...} block of a choice element is applied exactly
\* once each time the choice is selected with nextNode(elementId), and never
\* by getAvailableChoices or by getParsedText(element) without force_eval:
\* on the flow "pick" the selection of ep1 adds one to $count (modulo 3, as
\* the block says), and every other operation leaves the variables alone.
C24_ChoiceAssignments ==
    [][rt[1].loaded /\ rt[1].selectedFlowId = PickFlow.id /\ op'.name # "new"
       => IF NextNodeCalled(1) /\ op'.arg = "ep1" /\ On(1, PickFlow, "cp")
          THEN /\ result' = Returned("Emitted", "cp")
               /\ globalVariables'["count"]
                    = Num((globalVariables["count"].n + 1) % 3)
               /\ \A g \in GlobalNames \ {"count"} :
                     globalVariables'[g] = globalVariables[g]
          ELSE globalVariables' = globalVariables]_vars

\* ep1 was selected twice and its text rendered since: $count is 2
C24_Witness ==
    /\ On(1, PickFlow, "cp")
    /\ op = Operation("getParsedText", 1, "ep1")
    /\ result.kind = "text" /\ result.text = "more"
    /\ globalVariables["count"] = Num(2)


\* C25: no project variable of type separator enters the store: whatever
\* load and resetGlobalVariables did, the store has no entry under the key of
\* a separator, while every other project variable has one once the project
\* is loaded.
C25_NoSeparatorInStore ==
    \A k \in DOMAIN Project.variables :
       LET variable == Project.variables[k]
       IN  IF variable.type = VT_separator
           THEN globalVariables[variable.key] = Undef
           ELSE rt[1].loaded /\ rt[1].selectedFlowId # NULL
                => globalVariables[variable.key] # Undef

\* resetGlobalVariables has run on a loaded project: the variables hold
\* their project values and $sep is not there
C25_Witness ==
    /\ op = Operation("resetGlobalVariables", 1, NULL)
    /\ result.kind = "void"
    /\ rt[1].loaded
    /\ globalVariables["count"] = Num(0)
    /\ globalVariables["flag"] = Bool(FALSE)
    /\ globalVariables["sep"] = Undef


\* the step runs the onReady callback of the object in slot j
Invoked(j) ==
    \/ pc = "idle" /\ op' = Operation("fetchResolved", j, NULL)
                   /\ ready'[j] # ready[j]
    \/ pc = "idle" /\ op'.name = "new" /\ op'.inst = j /\ ready'[j] # 0

\* C26: onReady runs at most once for an object, and only in the step that
\* ends its load: the project is set, the cursor is on the Start node of the
\* selected flow and the stack of sub-flows is empty; the rejection of the
\* fetch ends it without the callback, and no other operation runs it.
C26_OnReadyAfterLoad ==
    /\ [](ready[1] <= 1)
    /\ [][/\ Invoked(1)
             => /\ rt'[1].loaded
                /\ rt'[1].selectedFlowId # NULL
                /\ getNode(World', 1, rt'[1].selectedNodeId,
                           rt'[1].selectedFlowId).type = NT_start
                /\ activeSubFlows' = << >>
          /\ ~Invoked(1) => ready'[1] = ready[1] \/ op'.name = "new"
                                                 \/ op'.name = "newFromFile"
          /\ pc = "idle" /\ op'.name = "fetchRejected"
             => ready'[1] = 0 /\ 1 \notin fetching']_vars

\* the fetch resolved and load returned: the callback ran once, on the Start
\* node of the first flow
C26_Witness ==
    /\ op = Operation("fetchResolved", 1, NULL)
    /\ ready[1] = 1
    /\ rt[1].selectedFlowId = Flows[1].id
    /\ activeSubFlows = << >>


\* the Sequence node of a flow of SequenceFlows, and the node its element
\* number x leads to
SequenceOf(flow) == flow.nodes[2]
Leads(flow, x) ==
    getConnectionsByElementId(SequenceOf(flow),
                              SequenceOf(flow).elements[x].id).to
\* the session runs on this flow
Walks(flow) == rt[1].loaded /\ rt[1].selectedFlowId = flow.id

\* C27: a Sequence node with cycle type Loop and N elements takes, at its
\* k-th traversal since all elements were unvisited, the connection of the
\* element number ((k-1) mod N) + 1.
C27_SequenceLoop ==
    Walks(LoopFlow)
    => \A k \in DOMAIN run1 :
          run1[k].out
            = Returned("Emitted",
                       Leads(LoopFlow,
                             ((k - 1) % Len(SequenceOf(LoopFlow).elements))
                             + 1))


\* the nodes the traversals number from + 1 .. from + n emitted
EmittedIn(from, n) == { run1[from + x].out.node : x \in 1 .. n }
\* the nodes the elements of the Sequence node of the flow lead to
AllLeads(flow) ==
    { Leads(flow, x) : x \in DOMAIN SequenceOf(flow).elements }

\* C28: a Sequence node with cycle type Smart Random, N elements and no
\* fail-connection takes, in every block of N traversals since all elements
\* were unvisited, the connection of each element exactly once.
C28_SequenceSmartRandom ==
    Walks(SmartFlow)
    => \A b \in 0 .. MaxTraversals :
          LET N == Len(SequenceOf(SmartFlow).elements)
          IN  (b + 1) * N <= Len(run1)
              => EmittedIn(b * N, N) = AllLeads(SmartFlow)

\* C29: a Sequence node with cycle type List and N elements takes the
\* connections of its elements in source order at its first N traversals,
\* and at every later one its fail-connection when it has one and the
\* connection of its last element otherwise.
C29_SequenceList ==
    \A flow \in {ListFlow, ListFailFlow} :
       Walks(flow)
       => \A k \in DOMAIN run1 :
             LET node == SequenceOf(flow)
                 N == Len(node.elements)
             IN  run1[k].out
                   = Returned("Emitted",
                              IF k <= N THEN Leads(flow, k)
                              ELSE IF getFailedConnection(node) # NoConn
                              THEN getFailedConnection(node).to
                              ELSE Leads(flow, N))

\* the list without fail-connection was traversed five times: the last two
\* traversals took the connection of its third element
C29_Witness ==
    /\ Walks(ListFlow)
    /\ Len(run1) = 5
    /\ run1[3].out.node = "li3"
    /\ run1[5].out.node = "li3"


\* the Text node of the flow "smarttext", its elements and their texts
SmartText == SmartTextFlow.nodes[2]
SmartElements == { SmartText.elements[k].id : k \in DOMAIN SmartText.elements }
SmartTexts ==
    { TextOfElement(SmartText, k) : k \in DOMAIN SmartText.elements }
\* the elements of the node that are not visited
SmartUnvisited == { e \in SmartElements : ~rt[1].visited[e] }
\* the step selected element e of the node and returned its text
Selected(e) ==
    /\ result' = [NoResult EXCEPT
                    !.kind = "text",
                    !.text = PartsOf(e)[1].s]
    /\ rt'[1].visited[e]

\* C30: a Text node with cycle type Smart Random and N elements returns, in
\* every block of N selections since all elements were unvisited, each
\* element exactly once; a selection takes an unvisited element and marks
\* it, and the flags are reset, before the selection, exactly when no
\* element is unvisited.
C30_TextSmartRandom ==
    /\ [](Walks(SmartTextFlow)
          => \A b \in 0 .. MaxTraversals :
                LET N == Len(SmartText.elements)
                IN  (b + 1) * N <= Len(run2)
                    => { run2[b * N + x].out.text : x \in 1 .. N }
                         = SmartTexts)
    /\ [][Rendered(1, NULL) /\ On(1, SmartTextFlow, SmartText.id)
          => IF SmartUnvisited = {}
             THEN \E e \in SmartElements :
                     /\ Selected(e)
                     /\ \A o \in SmartElements \ {e} : ~rt'[1].visited[o]
             ELSE \E e \in SmartUnvisited :
                     /\ Selected(e)
                     /\ \A o \in SmartElements \ {e} :
                           rt'[1].visited[o] = rt[1].visited[o]]_vars

\* six selections were made: the fourth came after a reset, and the last
\* three are z, y, x after x, y, z
C30_Witness ==
    /\ Walks(SmartTextFlow)
    /\ Len(run2) = 6
    /\ [k \in 1 .. 6 |-> run2[k].out.text] = << "x", "y", "z", "z", "y", "x" >>
    /\ SmartUnvisited = {}


\* the node a JumpToNode node names
JumpTarget(node) ==
    NodeIn(getFlow(World, node.jumpTo.flowId), node.jumpTo.nodeId)

\* the step is an activation of nextNode on a JumpToNode node whose target
\* exists
Jumps(j) ==
    /\ Activated(j)
    /\ rt[j].loaded /\ Homer = j
    /\ Current(j).type = NT_jumpToNode
    /\ nodeExists(World, Homer, Current(j).jumpTo.nodeId,
                  Current(j).jumpTo.flowId)

\* after the step the node has a choice to offer: an element that is not
\* visited, or one with the [+] marker
Offers(j, node) ==
    \E k \in DOMAIN node.elements :
       \/ ~rt'[j].visited[node.elements[k].id]
       \/ rt'[j].ifNoMore[node.elements[k].id]

\* C31: an activation of nextNode on a JumpToNode node whose target exists
\* sets the selected flow to jump_to.flow_id; when the target is a Text node
\* or a Choice node with available choices the call returns the target, with
\* the cursor on it; when the target is a pass-through node the cursor is on
\* the target and the walk goes on from there: no connection of the
\* JumpToNode node or of the target was followed
C31_Jump ==
    [][\A j \in Insts :
         Jumps(j)
         => LET target == JumpTarget(Current(j))
            IN  /\ rt'[j].selectedFlowId = Current(j).jumpTo.flowId
                /\ \/ target.type = NT_text
                   \/ target.type = NT_choices /\ Offers(j, target)
                   => /\ pc' = "idle"
                      /\ result' = Returned("Emitted", target.id)
                      /\ rt'[j].selectedNodeId = Current(j).jumpTo.nodeId
                /\ target.type \in PassThrough
                   => /\ pc' = "walking"
                      /\ rt'[j].selectedNodeId = Current(j).jumpTo.nodeId]_vars

\* the first call of the session went from the Start node of "jump" through
\* the JumpToNode node wja and returned its target, the Choice node wca:
\* no choice was made and no choice of wcy was hidden yet
C31_Witness ==
    /\ pc = "idle"
    /\ op.name = "nextNode" /\ op.arg = NULL
    /\ result = Returned("Emitted", "wca")
    /\ rt[1].selectedFlowId = "f17"
    /\ rt[1].selectedNodeId = "wca"
    /\ ~rt[1].visited["wea2"] /\ ~rt[1].visited["wea3"]
    /\ ~rt[1].wasHiddenBecauseEmpty["wey1"]


\* the step is the host's call nextNode(e) with the cursor on the Choice
\* node that holds the element e
Chooses(j, e) ==
    /\ NextNodeCalled(j) /\ op'.arg = e
    /\ rt[j].loaded
    /\ Current(j).type = NT_choices
    /\ getNodeElement(Current(j), e) # NULL

\* the node the connection of the chosen element leads to
ChosenTarget(j, e) ==
    getNode(World, j, getConnectionsByElementId(Current(j), e).to,
            rt[j].selectedFlowId)

\* C32: nextNode(elementId) on a Choice node follows the connection whose
\* nodeElementId is elementId (the cursor is on its target, or past it on
\* the target's fail-connection when the target is a Choice node with no
\* available choice); the chosen element is visited afterwards when it
\* carries [-] and keeps its visited flag when it does not; an element
\* without [-] that was chosen is not visited in any later state of the
\* session and getAvailableChoices on its node returns it again.
C32_ChoosingAChoice ==
    /\ [][\A e \in ChoicesIn(<< PickFlow >>) :
            Chooses(1, e)
            => LET target == ChosenTarget(1, e)
               IN  /\ \/ rt'[1].selectedNodeId = target.id
                      \/ /\ target.type = NT_choices
                         /\ ~Offers(1, target)
                         /\ rt'[1].selectedNodeId =
                               getFailedConnection(target).to
                   /\ rt'[1].visited[e] = (JustOnce(e) \/ rt[1].visited[e])]_vars
    /\ [](\A k \in DOMAIN run2 :
             Chose(k) /\ ~JustOnce(run2[k].arg) => ~rt[1].visited[run2[k].arg])
    /\ [][Listed(1) /\ rt[1].loaded /\ result'.kind = "choices"
          => \A k \in DOMAIN run2 :
                /\ Chose(k) /\ ~JustOnce(run2[k].arg)
                /\ run2[k].node = ListedNode(1).id
                => \E x \in DOMAIN result'.els :
                      result'.els[x] = run2[k].arg]_vars

\* "more" was chosen twice and "done" once; the walk is back on the Choice
\* node, which offers "more" again and "done" no longer
C32_Witness ==
    /\ pc = "idle"
    /\ Len(run2) = 3
    /\ [k \in 1 .. 3 |-> run2[k].arg] = << "ep1", "ep2", "ep1" >>
    /\ \A k \in 1 .. 3 : Chose(k)
    /\ op.name = "getAvailableChoices"
    /\ result.els = << "ep1" >>
    /\ rt[1].selectedNodeId = "cp"
    /\ rt[1].visited["ep2"] /\ ~rt[1].visited["ep1"]


\* after the step every element of the node with [+] is flagged _ifNoMore
\* and visited
IfNoMoreMarked(j, node) ==
    \A e \in WithIfNoMore(node) : rt'[j].ifNoMore[e] /\ rt'[j].visited[e]

\* C33: after a getAvailableChoices call every element of the node that
\* carries [+] has _ifNoMore = true and _visited = true, also when nextNode
\* made the call for the Choice node it returns; the call returns an
\* element with [+] only when every other element of the node is visited,
\* and then it returns no element without [+].
C33_IfNoMoreFallbackOnly ==
    /\ [][Listed(1) /\ rt[1].loaded /\ result'.kind = "choices"
          => LET node == ListedNode(1)
                 returned == { result'.els[x] : x \in DOMAIN result'.els }
             IN  /\ IfNoMoreMarked(1, node)
                 /\ returned \cap WithIfNoMore(node) # {}
                    => /\ \A e \in WithoutIfNoMore(node) : rt'[1].visited[e]
                       /\ returned \subseteq WithIfNoMore(node)]_vars
    /\ [][Activated(1) /\ result'.kind = "Emitted"
          => LET node == getNode(World, 1, result'.node,
                                 rt'[1].selectedFlowId)
             IN  node.type = NT_choices => IfNoMoreMarked(1, node)]_vars

\* the call returned the fallback "leave" alone: it is flagged and visited,
\* and so are the two other choices of the node, which were chosen
C33_Witness ==
    /\ pc = "idle"
    /\ op.name = "getAvailableChoices"
    /\ result.kind = "choices"
    /\ result.els = << "eq3" >>
    /\ rt[1].ifNoMore["eq3"] /\ rt[1].visited["eq3"]
    /\ \A e \in {"eq1", "eq2"} : rt[1].visited[e] /\ ~rt[1].ifNoMore[e]


\* the text of the element renders empty in the state of the call
RendersEmpty(j, e) ==
    \A p \in parsedText(World, j, j, e, FALSE) : ~p.thrown /\ p.out = ""

\* C34: getAvailableChoices on a Choice or Text node marks an unvisited
\* element whose text renders empty as visited and hidden because empty, and
\* does not return it; it clears both flags of a hidden element whose text
\* renders non-empty and returns it again (an element with [+] is then
\* marked visited by the [+] rule and returned as a fallback only); no call
\* of getAvailableChoices or nextNode sets back to unvisited an element that
\* is visited and not hidden because empty.
C34_SelfHide ==
    /\ [][/\ Listed(1) /\ rt[1].loaded /\ result'.kind = "choices"
          /\ ListedNode(1).type \in {NT_choices, NT_text}
          => LET node == ListedNode(1)
                 returned == { result'.els[x] : x \in DOMAIN result'.els }
             IN  \A e \in WithIfNoMore(node) \cup WithoutIfNoMore(node) :
                    /\ ~rt[1].visited[e] /\ RendersEmpty(1, e)
                       => /\ rt'[1].visited[e]
                          /\ rt'[1].wasHiddenBecauseEmpty[e]
                          /\ e \notin returned
                    /\ rt[1].wasHiddenBecauseEmpty[e] /\ ~RendersEmpty(1, e)
                       => /\ ~rt'[1].wasHiddenBecauseEmpty[e]
                          /\ rt'[1].visited[e] = (e \in WithIfNoMore(node))
                          /\ e \in WithoutIfNoMore(node) => e \in returned]_vars
    /\ [][Listed(1) \/ Activated(1)
          => \A e \in TextChoices :
                rt[1].visited[e] /\ ~rt[1].wasHiddenBecauseEmpty[e]
                => rt'[1].visited[e]]_vars

\* "ask" was chosen and has set $name: the call found the text of the
\* second choice, hidden until then, non-empty and returned it, unvisited
\* and no longer marked as hidden
C34_Witness ==
    /\ pc = "idle"
    /\ op.name = "getAvailableChoices"
    /\ result.kind = "choices"
    /\ result.els = << "eq2" >>
    /\ globalVariables["name"] = Str("x")
    /\ rt[1].visited["eq1"]
    /\ ~rt[1].visited["eq2"]
    /\ ~rt[1].wasHiddenBecauseEmpty["eq2"]
    /\ run2 # << >> /\ run2[1].arg = "eq1" /\ Chose(1)


\* the step is a load on instance j: the host's call, or the one that
\* follows the fetch of the project file
Loads(j) ==
    pc = "idle" /\ op'.inst = j /\ op'.name \in {"load", "fetchResolved"}

\* the record of the only variation block of element e
RecordOf(j, e) ==
    rt[j].variations[
       CHOOSE p \in DOMAIN rt[j].variations :
          rt[j].variations[p].elementId = e]

\* C35: a load on a runtime whose variation registry holds a record leaves
\* every record, its remaining values included, as it was; a load that
\* returns on a runtime whose registry is empty builds the records of the
\* project.
C35_RegistryKept ==
    [][Loads(1)
       => IF rt[1].variations # << >>
          THEN rt'[1].variations = rt[1].variations
          ELSE rt'[1].loaded => rt'[1].variations = InitialVariations]_vars

\* the LIST block of nl was rendered until no value remained, and the host
\* loaded the project again: the record is still exhausted, the cursor is
\* back on the Start node
C35_Witness ==
    /\ pc = "idle"
    /\ op.name = "load" /\ result.kind = "void"
    /\ rt[1].selectedNodeId = "s5"
    /\ RecordOf(1, "evl").type = "LIST"
    /\ RecordOf(1, "evl").values = << >>
    /\ Len(RecordOf(1, "evs").values) < 3


\* C36: _isJumping is false in every state in which nextNode has returned
\* Emitted, Ended or BadJump, so that no later call starts with it set.
C36_JumpingIsTransient ==
    pc = "idle" /\ op.name = "nextNode"
    /\ result.kind \in {"Emitted", "Ended", "BadJump"}
    => ~rt[op.inst].isJumping


\* C37: an activation of nextNode on a Variables node evaluates the
\* expression of each element once, and the walker then moves on, so that
\* the node is not evaluated a second time in the same pass.
C37_VariablesOncePerPass ==
    [][Activated(1) /\ rt[1].loaded /\ Current(1).type = NT_variables
       => /\ \E v \in VariablesElements(World, 1, Current(1), 1) :
                ~v.thrown /\ globalVariables' = v.w.gv
          /\ rt'[1].selectedNodeId # rt[1].selectedNodeId]_vars


\* the node the cursor of instance j is on after the step
Reached(j) ==
    getNode(World, j, rt'[j].selectedNodeId, rt'[j].selectedFlowId)

\* C38: when an activation of nextNode moves the cursor to a Text node, over
\* an ordinary connection or over the fail-connection of a Choice node with
\* no available choice, the call returns that node.
C38_TextNeverSkipped ==
    [][/\ Activated(1) /\ rt[1].loaded
       /\ rt'[1].selectedNodeId \notin {rt[1].selectedNodeId, THE_END}
       /\ result'.kind # "TypeError"
       /\ Reached(1).type = NT_text
       => /\ pc' = "idle"
          /\ result' = Returned("Emitted", rt'[1].selectedNodeId)]_vars

\* C39: when the walker leaves a SubFlow node that is on the stack through
\* its exit edge (the one not typed SubFlow), the entry removed is the top
\* of activeSubFlows and it is that node's own entry; the other entries stay
C39_StackDiscipline ==
    [][/\ Activated(1) /\ rt[1].loaded
       /\ Current(1).type = NT_subFlow /\ OnStack(Current(1).id)
       /\ NotOfType(Current(1), NT_subFlow) # << >>
       => /\ Head(activeSubFlows).nodeId = Current(1).id
          /\ activeSubFlows' = Tail(activeSubFlows)]_vars

\* C40: a call of getAvailableChoices on a Choice node leaves the values of
\* every variation record as they were
C40_ListingKeepsVariations ==
    [][Listed(1) /\ rt[1].loaded /\ ListedNode(1).type = NT_choices
       /\ result'.kind = "choices"
       => rt'[1].variations = rt[1].variations]_vars

====
